---------------------------- MODULE Spec2Model ----------------------------
(***************************************************************************)
(* A model of serde_rusqlite: the encoders that turn a serde value into    *)
(* bound query parameters (src/src/ser) and the decoders that turn a       *)
(* fetched row into a serde value (src/src/de/mod.rs).                     *)
(*                                                                         *)
(* A serde value is a record [k |-> kind, v |-> payload] (with n |-> name  *)
(* where the serde data model carries one).  A storage value is one of the *)
(* five SQLite kinds, [k |-> "Null" | "Integer" | "Real" | "Text" |        *)
(* "Blob", v |-> payload].  A result is Ok(x) or Err(e).                   *)
(***************************************************************************)
EXTENDS Integers, Sequences, FiniteSets, TLC

(***************************************************************************)
(* Bounds.  TLC's integers have 32 bits, so the integer widths are scaled: *)
(* a byte has BitsPerByte bits and the 8/16/32/64-bit types have 1/2/4/8   *)
(* such bytes.                                                             *)
(***************************************************************************)
BitsPerByte == 2
MaxBlobLen == 2
MaxFields == 3
MaxCols == 2
MaxRows == 2

(***************************************************************************)
(* Results and errors (src/src/error.rs).                                  *)
(***************************************************************************)
Ok(x) == [ok |-> TRUE, val |-> x]

Err(e) == [ok |-> FALSE, err |-> e]

\* Error::Unsupported(String)
Unsupported(msg) == [kind |-> "Unsupported", column |-> <<>>, msg |-> msg]

\* Error::ValueTooLarge(String)
ValueTooLarge(msg) == [kind |-> "ValueTooLarge", column |-> <<>>, msg |-> msg]

\* Error::Rusqlite(rusqlite::Error), through From<rusqlite::Error>
Rusqlite(msg) == [kind |-> "Rusqlite", column |-> <<>>, msg |-> msg]

\* Error::ser_unsupported
ser_unsupported(typ) ==
    Unsupported("Serialization is not supported from type: " \o typ)

\* Error::de_unsupported
de_unsupported(typ) ==
    Unsupported("Deserialization is not supported into type: " \o typ)

\* <Error as de::Error>::custom: column is None until a cursor annotates it
de_custom(msg) == [kind |-> "Deserialization", column |-> <<>>, msg |-> msg]

(***************************************************************************)
(* Integer types.                                                          *)
(***************************************************************************)
SignedTypes == {"i8", "i16", "i32", "i64"}

UnsignedTypes == {"u8", "u16", "u32", "u64"}

IntTypes == SignedTypes \cup UnsignedTypes

Bytes(t) ==
    CASE t \in {"i8", "u8"} -> 1
      [] t \in {"i16", "u16"} -> 2
      [] t \in {"i32", "u32"} -> 4
      [] t \in {"i64", "u64"} -> 8

Bits(t) == Bytes(t) * BitsPerByte

MinOf(t) == IF t \in SignedTypes THEN -(2 ^ (Bits(t) - 1)) ELSE 0

MaxOf(t) == IF t \in SignedTypes THEN 2 ^ (Bits(t) - 1) - 1 ELSE 2 ^ Bits(t) - 1

\* i64::MAX
I64_MAX == MaxOf("i64")

\* u64::MAX
U64_MAX == MaxOf("u64")

InRange(t, n) == MinOf(t) <= n /\ n <= MaxOf(t)

(***************************************************************************)
(* Floats.  A float is NaN, an infinity, negative zero, or a finite value  *)
(* n/2.  Every f32 is an f64; the f32 grid holds the even numerators (the  *)
(* whole numbers) up to F32Limit, so narrowing an f64 rounds.              *)
(***************************************************************************)
NaN == [cls |-> "NaN", n |-> 0]

PosInf == [cls |-> "Inf", n |-> 1]

NegInf == [cls |-> "Inf", n |-> -1]

NegZero == [cls |-> "NegZero", n |-> 0]

Fin(n) == [cls |-> "Fin", n |-> n]

is_nan(f) == f.cls = "NaN"

F32Limit == 2 ^ (Bits("i64") + 2)

\* f == 0.0 under IEEE comparison
FIsZero(f) == f.cls = "NegZero" \/ (f.cls = "Fin" /\ f.n = 0)

\* Rust's `a != b` on floats: NaN differs from everything, -0.0 == 0.0
FNe(a, b) ==
    \/ is_nan(a)
    \/ is_nan(b)
    \/ IF FIsZero(a) \/ FIsZero(b) THEN ~(FIsZero(a) /\ FIsZero(b)) ELSE a # b

\* f64::from(f32): exact
F64FromF32(f) == f

\* `v as f32` for an f64: round to the nearest f32, ties to even, saturating
AsF32(f) ==
    IF f.cls # "Fin" THEN f
    ELSE IF f.n > F32Limit THEN PosInf
    ELSE IF f.n < -F32Limit THEN NegInf
    ELSE IF f.n % 2 = 0 THEN f
    ELSE LET r == IF (f.n + 1) % 4 = 0 THEN f.n + 1 ELSE f.n - 1
         IN  IF r = 0 /\ f.n < 0 THEN NegZero ELSE Fin(r)

\* `v as f64` / `v as f32` for an integer
IntAsFloat(n) == Fin(2 * n)

(***************************************************************************)
(* Storage values (rusqlite::types::Value).                                *)
(***************************************************************************)
Null == [k |-> "Null", v |-> 0]

Integer(n) == [k |-> "Integer", v |-> n]

Real(f) == [k |-> "Real", v |-> f]

Text(s) == [k |-> "Text", v |-> s]

Blob(b) == [k |-> "Blob", v |-> b]

(***************************************************************************)
(* Serde values (what a Serialize impl hands to a Serializer).             *)
(***************************************************************************)
VBool(b) == [k |-> "bool", v |-> b]

VInt(t, n) == [k |-> t, v |-> n]

VF32(f) == [k |-> "f32", v |-> f]

VF64(f) == [k |-> "f64", v |-> f]

VChar(c) == [k |-> "char", v |-> c]

VStr(s) == [k |-> "str", v |-> s]

\* serde_bytes::Bytes / ByteBuf
VBytes(b) == [k |-> "bytes", v |-> b]

VNone == [k |-> "none", v |-> 0]

VSome(x) == [k |-> "some", v |-> x]

VUnit == [k |-> "unit", v |-> 0]

VUnitStruct(name) == [k |-> "unit_struct", v |-> 0, n |-> name]

VUnitVariant(name, variant) == [k |-> "unit_variant", v |-> variant, n |-> name]

VNewtypeStruct(name, x) == [k |-> "newtype_struct", v |-> x, n |-> name]

VNewtypeVariant(name, x) == [k |-> "newtype_variant", v |-> x, n |-> name]

\* Vec<T>
VSeq(xs) == [k |-> "seq", v |-> xs]

VTuple(xs) == [k |-> "tuple", v |-> xs]

VTupleStruct(name, xs) == [k |-> "tuple_struct", v |-> xs, n |-> name]

VTupleVariant(name, xs) == [k |-> "tuple_variant", v |-> xs, n |-> name]

\* entries: a sequence of [key |-> serde value, val |-> serde value]
VMap(entries) == [k |-> "map", v |-> entries]

\* fields: a sequence of [key |-> field name, val |-> serde value]
VStruct(name, fields) == [k |-> "struct", v |-> fields, n |-> name]

VStructVariant(name, fields) == [k |-> "struct_variant", v |-> fields, n |-> name]

(***************************************************************************)
(* U8Serializer and BlobSerializer (src/src/ser/blob.rs).                  *)
(***************************************************************************)
\* The name ser_unimpl! / the explicit methods put into the Unsupported error
U8UnsupportedName(x) ==
    CASE x.k = "str" -> "&str"
      [] x.k = "bytes" -> "&[u8]"
      [] x.k = "none" -> "None"
      [] x.k = "some" -> "Some"
      [] x.k \in {"unit", "unit_struct", "unit_variant"} -> "()"
      [] x.k = "tuple_variant" -> "type_variant"
      [] OTHER -> x.k

\* U8Serializer taking every integer as a byte
U8Serializer_any_integer(x) ==
    IF x.k \in IntTypes THEN Ok(x.v) ELSE Err(ser_unsupported(U8UnsupportedName(x)))

\* value.serialize(U8Serializer): only serialize_u8 yields a byte
U8Serializer(x) ==
    IF x.k = "u8" THEN Ok(x.v) ELSE Err(ser_unsupported(U8UnsupportedName(x)))

\* BlobSerializer::serialize_element over the elements from i on, then end();
\* `?` returns the element's error and drops buf
RECURSIVE BlobSerializer(_, _, _)
BlobSerializer(xs, i, buf) ==
    IF i > Len(xs) THEN Ok(Blob(buf))
    ELSE LET b == U8Serializer(xs[i])
         IN  IF b.ok THEN BlobSerializer(xs, i + 1, Append(buf, b.val))
             ELSE Err(b.err)

(***************************************************************************)
(* ToSqlSerializer (src/src/ser/tosql.rs): one serde value to one boxed    *)
(* ToSql, given here as the storage value its to_sql() yields.             *)
(***************************************************************************)
\* tosql_ser!: Ok(Box::new(v)); rusqlite's ToSql of the boxed value
tosql_ser(x) ==
    CASE x.k = "bool" -> Ok(Integer(IF x.v THEN 1 ELSE 0))
      [] x.k \in IntTypes -> Ok(Integer(x.v))
      [] x.k = "f64" -> Ok(Real(x.v))
      [] x.k = "str" -> Ok(Text(x.v))
      [] x.k = "bytes" -> Ok(Blob(x.v))

ToSql_serialize_i64(n) == tosql_ser(VInt("i64", n))

\* serialize_u64 with `v as i64` in place of the range check
ToSql_serialize_u64_wrapping(n) ==
    ToSql_serialize_i64(IF n > I64_MAX THEN n - 2 ^ Bits("u64") ELSE n)

ToSql_serialize_u64(n) ==
    IF n > I64_MAX
    THEN Err(ValueTooLarge("Value is too large to fit into i64: " \o ToString(n)))
    ELSE ToSql_serialize_i64(n)

\* serialize_f64 with a NaN check of its own
ToSql_serialize_f64_nan_as_null(f) ==
    IF is_nan(f) THEN Ok(Null) ELSE tosql_ser(VF64(f))

ToSql_serialize_f64(f) == tosql_ser(VF64(f))

ToSql_serialize_f32(f) == ToSql_serialize_f64(F64FromF32(f))

ToSql_serialize_str(s) == tosql_ser(VStr(s))

ToSql_serialize_char(c) == ToSql_serialize_str(c)

\* serialize_none writing the string "None", as the named serializer names it
ToSql_serialize_none_as_text == ToSql_serialize_str("None")

ToSql_serialize_none == Ok(Null)

ToSql_serialize_unit == ToSql_serialize_none

ToSql_serialize_unit_struct(name) == ToSql_serialize_str(name)

\* serialize_unit_variant forwarding to serialize_unit
ToSql_serialize_unit_variant_as_unit(variant) == ToSql_serialize_unit

ToSql_serialize_unit_variant(variant) == ToSql_serialize_str(variant)

\* serialize_seq refusing a sequence of length 0
ToSql_serialize_seq_not_empty(xs) ==
    IF xs = <<>> THEN Err(ser_unsupported("seq")) ELSE BlobSerializer(xs, 1, <<>>)

ToSql_serialize_seq(xs) == BlobSerializer(xs, 1, <<>>)

\* value.serialize(ToSqlSerializer)
RECURSIVE ToSqlSerializer(_)
ToSqlSerializer(x) ==
    CASE x.k \in {"bool", "i8", "i16", "i32", "i64", "u8", "u16", "u32"} -> tosql_ser(x)
      [] x.k = "u64" -> ToSql_serialize_u64(x.v)
      [] x.k = "f32" -> ToSql_serialize_f32(x.v)
      [] x.k = "f64" -> ToSql_serialize_f64(x.v)
      [] x.k = "char" -> ToSql_serialize_char(x.v)
      [] x.k = "str" -> ToSql_serialize_str(x.v)
      [] x.k = "bytes" -> tosql_ser(x)
      [] x.k = "none" -> ToSql_serialize_none
      [] x.k = "some" -> ToSqlSerializer(x.v)
      [] x.k = "unit" -> ToSql_serialize_unit
      [] x.k = "unit_struct" -> ToSql_serialize_unit_struct(x.n)
      [] x.k = "unit_variant" -> ToSql_serialize_unit_variant(x.v)
      [] x.k \in {"newtype_struct", "newtype_variant"} -> ToSqlSerializer(x.v)
      [] x.k = "seq" -> ToSql_serialize_seq(x.v)
      [] OTHER -> Err(ser_unsupported(x.k))

(***************************************************************************)
(* PositionalSliceSerializer (src/src/ser/positional.rs) and to_params.    *)
(***************************************************************************)
\* serialize_element inserting at the front (result.insert(0, ..))
RECURSIVE Positional_elements_prepending(_, _, _)
Positional_elements_prepending(xs, i, result) ==
    IF i > Len(xs) THEN Ok(result)
    ELSE LET p == ToSqlSerializer(xs[i])
         IN  IF p.ok THEN Positional_elements_prepending(xs, i + 1, <<p.val>> \o result)
             ELSE Err(p.err)

\* serialize_element / serialize_field over the elements from i on, then end()
RECURSIVE Positional_elements(_, _, _)
Positional_elements(xs, i, result) ==
    IF i > Len(xs) THEN Ok(result)
    ELSE LET p == ToSqlSerializer(xs[i])
         IN  IF p.ok THEN Positional_elements(xs, i + 1, Append(result, p.val))
             ELSE Err(p.err)

\* forward_tosql!: self.result.push(ToSqlSerializer.$fun(v)?); Ok(self.result)
forward_tosql(x) ==
    LET p == ToSqlSerializer(x)
    IN  IF p.ok THEN Ok(<<p.val>>) ELSE Err(p.err)

\* the positional serializer taking a struct as the sequence of its field values
RECURSIVE PositionalSliceSerializer_with_fields(_)
PositionalSliceSerializer_with_fields(x) ==
    CASE x.k \in {"some", "newtype_struct", "newtype_variant"} ->
            PositionalSliceSerializer_with_fields(x.v)
      [] x.k \in {"seq", "tuple", "tuple_struct", "tuple_variant"} ->
            Positional_elements(x.v, 1, <<>>)
      [] x.k \in {"struct", "struct_variant"} ->
            Positional_elements([i \in 1..Len(x.v) |-> x.v[i].val], 1, <<>>)
      [] x.k = "map" -> Err(ser_unsupported(x.k))
      [] OTHER -> forward_tosql(x)

\* the positional serializer forwarding a sequence to the primitive encoder
RECURSIVE PositionalSliceSerializer_seq_forwarded(_)
PositionalSliceSerializer_seq_forwarded(x) ==
    CASE x.k \in {"some", "newtype_struct", "newtype_variant"} ->
            PositionalSliceSerializer_seq_forwarded(x.v)
      [] x.k \in {"tuple", "tuple_struct", "tuple_variant"} ->
            Positional_elements(x.v, 1, <<>>)
      [] x.k \in {"map", "struct", "struct_variant"} -> Err(ser_unsupported(x.k))
      [] OTHER -> forward_tosql(x)

\* value.serialize(PositionalSliceSerializer::default())
RECURSIVE PositionalSliceSerializer(_)
PositionalSliceSerializer(x) ==
    CASE x.k \in {"some", "newtype_struct", "newtype_variant"} ->
            PositionalSliceSerializer(x.v)
      [] x.k \in {"seq", "tuple", "tuple_struct", "tuple_variant"} ->
            Positional_elements(x.v, 1, <<>>)
      [] x.k \in {"map", "struct", "struct_variant"} -> Err(ser_unsupported(x.k))
      [] OTHER -> forward_tosql(x)

\* to_params (src/src/lib.rs)
to_params(obj) == PositionalSliceSerializer(obj)

(***************************************************************************)
(* Target types (what a Deserialize impl asks a Deserializer for).         *)
(***************************************************************************)
TBool == [k |-> "bool"]

TInt(t) == [k |-> t]

TF32 == [k |-> "f32"]

TF64 == [k |-> "f64"]

TChar == [k |-> "char"]

TString == [k |-> "String"]

\* serde_bytes::ByteBuf
TByteBuf == [k |-> "ByteBuf"]

\* Vec<u8>
TVecU8 == [k |-> "Vec<u8>"]

TUnit == [k |-> "unit"]

TOption(T) == [k |-> "Option", v |-> T]

TUnitStruct(name) == [k |-> "unit_struct", n |-> name]

TNewtypeStruct(name, T) == [k |-> "newtype_struct", v |-> T, n |-> name]

\* variants: a sequence of [n |-> variant name, shape |-> "unit" | "newtype" |
\* "tuple" | "struct"]
TEnum(name, variants) == [k |-> "enum", v |-> variants, n |-> name]

\* fields: a sequence of [n |-> field name, t |-> target type]
TStruct(name, fields) == [k |-> "struct", v |-> fields, n |-> name]

\* HashMap<K, V>
TMap(K, V) == [k |-> "map", v |-> V, key |-> K]

TTuple(Ts) == [k |-> "tuple", v |-> Ts]

(***************************************************************************)
(* The visitors of the target types, as serde implements them: which       *)
(* visit_* call a target accepts and the value it builds.  A call the      *)
(* visitor does not implement is serde's invalid_type, built by            *)
(* de::Error::custom.                                                      *)
(***************************************************************************)
\* invalid_type reported as an unsupported target type
invalid_type_as_unsupported(unexp, T) == de_unsupported(T.k)

invalid_type(unexp, T) ==
    de_custom("invalid type: " \o unexp \o ", expected " \o T.k)

invalid_value(unexp, T) ==
    de_custom("invalid value: " \o unexp \o ", expected " \o T.k)

VisitBool(T, b) ==
    IF T.k = "bool" THEN Ok(VBool(b)) ELSE Err(invalid_type("boolean", T))

VisitI64(T, n) ==
    CASE T.k \in IntTypes ->
            IF InRange(T.k, n) THEN Ok(VInt(T.k, n))
            ELSE Err(invalid_value("integer", T))
      [] T.k = "f32" -> Ok(VF32(IntAsFloat(n)))
      [] T.k = "f64" -> Ok(VF64(IntAsFloat(n)))
      [] OTHER -> Err(invalid_type("integer", T))

VisitF64(T, f) ==
    CASE T.k = "f32" -> Ok(VF32(AsF32(f)))
      [] T.k = "f64" -> Ok(VF64(f))
      [] OTHER -> Err(invalid_type("floating point", T))

VisitF32(T, f) ==
    CASE T.k = "f32" -> Ok(VF32(f))
      [] T.k = "f64" -> Ok(VF64(F64FromF32(f)))
      [] OTHER -> Err(invalid_type("floating point", T))

VisitNone(T) ==
    IF T.k = "Option" THEN Ok(VNone) ELSE Err(invalid_type("Option", T))

VisitUnit(T) ==
    CASE T.k = "unit" -> Ok(VUnit)
      [] T.k = "unit_struct" -> Ok(VUnitStruct(T.n))
      [] T.k = "Option" -> Ok(VNone)
      [] OTHER -> Err(invalid_type("unit", T))

VisitString(T, s) ==
    CASE T.k = "String" -> Ok(VStr(s))
      [] T.k = "char" ->
            IF Len(s) = 1 THEN Ok(VChar(s)) ELSE Err(invalid_value("string", T))
      [] OTHER -> Err(invalid_type("string", T))

\* next_element over the bytes of a Blob for the element or field types Ts
\* of T from i on: each byte is handed to its type by visit_u8, which the
\* integer and float types take as they take an integer; a missing byte is
\* invalid_length, and bytes left over are not looked at
RECURSIVE VisitSeqElements(_, _, _, _, _)
VisitSeqElements(T, Ts, bytes, i, elems) ==
    IF i > Len(Ts)
    THEN Ok(IF T.k = "tuple" THEN VTuple(elems)
            ELSE VStruct(T.n, [j \in 1..Len(Ts) |->
                                 [key |-> T.v[j].n, val |-> elems[j]]]))
    ELSE IF i > Len(bytes) THEN Err(de_custom("invalid length " \o ToString(i - 1)))
    ELSE IF VisitI64(Ts[i], bytes[i]).ok
    THEN VisitSeqElements(T, Ts, bytes, i + 1,
                          Append(elems, VisitI64(Ts[i], bytes[i]).val))
    ELSE VisitI64(Ts[i], bytes[i])

\* visit_seq over the bytes of a Blob (val.into_deserializer()): Vec<u8>
\* takes them all, a tuple and a derived struct take one per element or field
VisitSeq(T, bytes) ==
    CASE T.k = "Vec<u8>" ->
            Ok(VSeq([i \in 1..Len(bytes) |-> VInt("u8", bytes[i])]))
      [] T.k = "tuple" -> VisitSeqElements(T, T.v, bytes, 1, <<>>)
      [] T.k = "struct" ->
            VisitSeqElements(T, [i \in 1..Len(T.v) |-> T.v[i].t], bytes, 1, <<>>)
      [] OTHER -> Err(invalid_type("sequence", T))

VisitByteBuf(T, bytes) ==
    IF T.k = "ByteBuf" THEN Ok(VBytes(bytes)) ELSE Err(invalid_type("byte array", T))

(***************************************************************************)
(* RowVariantAccess and RowEnumAccess (src/src/de/mod.rs).                 *)
(***************************************************************************)
RowVariantAccess_unit_variant == Ok(VUnit)

\* newtype_variant_seed treating the variant as a unit variant
RowVariantAccess_newtype_variant_seed_as_unit == Ok(VUnit)

RowVariantAccess_newtype_variant_seed == Err(de_unsupported("newtype_variant"))

RowVariantAccess_tuple_variant == Err(de_unsupported("tuple_variant"))

RowVariantAccess_struct_variant == Err(de_unsupported("struct_variant"))

\* seed.deserialize(self.0.into_deserializer()): the derived variant identifier
\* matches the text against the variant names by string equality
RowEnumAccess_variant_seed(T, s) ==
    LET hits == {i \in 1..Len(T.v) : T.v[i].n = s}
    IN  IF hits = {} THEN Err(de_custom("unknown variant " \o s))
        ELSE Ok(CHOOSE i \in hits : \A j \in hits : i <= j)

\* visitor.visit_enum(RowEnumAccess(s)): the derived enum visitor takes the
\* variant and then asks the variant access for that variant's shape
VisitEnum(T, s) ==
    IF T.k # "enum" THEN Err(invalid_type("enum", T))
    ELSE LET i == RowEnumAccess_variant_seed(T, s)
         IN  IF ~i.ok THEN i
             ELSE LET shape == T.v[i.val].shape
                      r == CASE shape = "unit" -> RowVariantAccess_unit_variant
                             [] shape = "newtype" -> RowVariantAccess_newtype_variant_seed
                             [] shape = "tuple" -> RowVariantAccess_tuple_variant
                             [] shape = "struct" -> RowVariantAccess_struct_variant
                  IN  IF r.ok THEN Ok(VUnitVariant(T.n, T.v[i.val].n)) ELSE r

(***************************************************************************)
(* RowValue (src/src/de/mod.rs): the decoder of one column of a row.  A    *)
(* row is a sequence of storage values; idx counts from 0.                 *)
(***************************************************************************)
\* RowValue::value::<T: FromSql>: row.get(idx), its error wrapped by Error::from
value(fromsql, row, idx) ==
    IF idx >= Len(row) THEN Err(Rusqlite("InvalidColumnIndex"))
    ELSE LET val == row[idx + 1]
         IN  CASE fromsql = "Value" -> Ok(val)
               [] fromsql = "String" ->
                     IF val.k = "Text" THEN Ok(val.v)
                     ELSE Err(Rusqlite("InvalidColumnType"))
               [] fromsql = "Vec<u8>" ->
                     IF val.k = "Blob" THEN Ok(val.v)
                     ELSE Err(Rusqlite("InvalidColumnType"))

deserialize_any_helper(T, val) ==
    CASE val.k = "Null" -> VisitNone(T)
      [] val.k = "Integer" -> VisitI64(T, val.v)
      [] val.k = "Real" -> VisitF64(T, val.v)
      [] val.k = "Text" -> VisitString(T, val.v)
      [] val.k = "Blob" -> VisitSeq(T, val.v)

deserialize_any(T, row, idx) ==
    LET val == value("Value", row, idx)
    IN  IF ~val.ok THEN val ELSE deserialize_any_helper(T, val.val)

\* deserialize_bool left to forward_to_deserialize_any!
deserialize_bool_forwarded(T, row, idx) == deserialize_any(T, row, idx)

deserialize_bool(T, row, idx) ==
    LET val == value("Value", row, idx)
    IN  IF ~val.ok THEN val
        ELSE CASE val.val.k = "Integer" -> VisitBool(T, val.val.v # 0)
               [] val.val.k = "Real" -> VisitBool(T, FNe(val.val.v, Fin(0)))
               [] OTHER -> deserialize_any_helper(T, val.val)

deserialize_f32(T, row, idx) ==
    LET val == value("Value", row, idx)
    IN  IF ~val.ok THEN val
        ELSE IF val.val.k = "Null" THEN VisitF32(T, NaN)
        ELSE deserialize_any_helper(T, val.val)

\* deserialize_f64 left to forward_to_deserialize_any!
deserialize_f64_forwarded(T, row, idx) == deserialize_any(T, row, idx)

deserialize_f64(T, row, idx) ==
    LET val == value("Value", row, idx)
    IN  IF ~val.ok THEN val
        ELSE IF val.val.k = "Null" THEN VisitF64(T, NaN)
        ELSE deserialize_any_helper(T, val.val)

deserialize_byte_buf(T, row, idx) ==
    LET val == value("Vec<u8>", row, idx)
    IN  IF ~val.ok THEN val ELSE VisitByteBuf(T, val.val)

\* deserialize_unit left to forward_to_deserialize_any!
deserialize_unit_forwarded(T, row, idx) == deserialize_any(T, row, idx)

deserialize_unit(T, row, idx) ==
    LET val == value("Value", row, idx)
    IN  IF ~val.ok THEN val
        ELSE IF val.val.k = "Null" THEN VisitUnit(T)
        ELSE deserialize_any_helper(T, val.val)

\* deserialize_unit_struct handled as deserialize_unit
deserialize_unit_struct_as_unit(T, name, row, idx) == deserialize_unit(T, row, idx)

deserialize_unit_struct(T, name, row, idx) ==
    LET val == value("Value", row, idx)
    IN  IF ~val.ok THEN val
        ELSE IF val.val.k = "Text" /\ val.val.v = name THEN VisitUnit(T)
        ELSE deserialize_any_helper(T, val.val)

deserialize_enum(T, row, idx) ==
    LET val == value("String", row, idx)
    IN  IF ~val.ok THEN val ELSE VisitEnum(T, val.val)

RECURSIVE Deserialize(_, _, _)

\* visitor.visit_some(self): the Option visitor decodes its inner type from
\* the same RowValue
VisitSome(T, row, idx) ==
    IF T.k # "Option" THEN Err(invalid_type("Option", T))
    ELSE LET r == Deserialize(T.v, row, idx)
         IN  IF r.ok THEN Ok(VSome(r.val)) ELSE r

deserialize_option(T, row, idx) ==
    LET val == value("Value", row, idx)
    IN  IF ~val.ok THEN val
        ELSE IF val.val.k = "Null" THEN VisitNone(T)
        ELSE VisitSome(T, row, idx)

\* T::deserialize(RowValue { idx, row }): the Deserializer method each target
\* type asks for; the rest are forward_to_deserialize_any!
Deserialize(T, row, idx) ==
    CASE T.k = "bool" -> deserialize_bool(T, row, idx)
      [] T.k = "f32" -> deserialize_f32(T, row, idx)
      [] T.k = "f64" -> deserialize_f64(T, row, idx)
      [] T.k = "ByteBuf" -> deserialize_byte_buf(T, row, idx)
      [] T.k = "Option" -> deserialize_option(T, row, idx)
      [] T.k = "unit" -> deserialize_unit(T, row, idx)
      [] T.k = "unit_struct" -> deserialize_unit_struct(T, T.n, row, idx)
      [] T.k = "enum" -> deserialize_enum(T, row, idx)
      [] OTHER -> deserialize_any(T, row, idx)

(***************************************************************************)
(* The row cursors and RowDeserializer (src/src/de/mod.rs).  A row decode  *)
(* yields [res |-> its result, visited |-> the column indices for which a  *)
(* RowValue was built, in order].                                          *)
(***************************************************************************)
\* An index past the end of a slice: the thread panics, no Result is returned
Panic(msg) == [kind |-> "Panic", column |-> <<>>, msg |-> msg]

Outcome(res, visited) == [res |-> res, visited |-> visited]

\* add_field_to_error setting the column of every kind of error
add_field_to_error_any_kind(error, error_column) ==
    [error EXCEPT !.column = <<error_column>>]

add_field_to_error(error, error_column) ==
    IF error.kind = "Deserialization"
    THEN [error EXCEPT !.column = <<error_column>>]
    ELSE error

\* next_key_seed ending one column early (idx + 1 >= columns.len())
next_key_seed_one_short(K, columns, idx) ==
    IF idx + 1 >= Len(columns) THEN Ok(<<>>)
    ELSE LET column == columns[idx + 1]
             key == VisitString(K, column)
         IN  IF key.ok THEN Ok(<<key.val>>)
             ELSE Err(add_field_to_error(key.err, column))

\* RowMapAccess::next_key_seed; Ok(<<>>) is Ok(None), Ok(<<key>>) is Ok(Some(key)).
\* K is the key's target type: column.into_deserializer() only ever calls visit_str
next_key_seed(K, columns, idx) ==
    IF idx >= Len(columns) THEN Ok(<<>>)
    ELSE LET column == columns[idx + 1]
             key == VisitString(K, column)
         IN  IF key.ok THEN Ok(<<key.val>>)
             ELSE Err(add_field_to_error(key.err, column))

\* next_value_seed annotating after the cursor moved on (self.idx += 1 first)
next_value_seed_after_increment(T, row, columns, idx) ==
    LET out == Deserialize(T, row, idx)
    IN  IF out.ok THEN out
        ELSE IF idx + 1 >= Len(columns) THEN Err(Panic("index out of bounds"))
        ELSE Err(add_field_to_error(out.err, columns[idx + 2]))

\* RowMapAccess::next_value_seed (the caller adds 1 to idx)
next_value_seed(T, row, columns, idx) ==
    LET out == Deserialize(T, row, idx)
    IN  IF out.ok THEN out
        ELSE IF idx >= Len(columns) THEN Err(Panic("index out of bounds"))
        ELSE Err(add_field_to_error(out.err, columns[idx + 1]))

\* next_element_seed reading after the cursor moved on (self.idx += 1 first)
next_element_seed_after_increment(T, row, columns, idx) ==
    LET out == Deserialize(T, row, idx + 1)
    IN  IF out.ok THEN out
        ELSE IF idx >= Len(columns) THEN Err(Panic("index out of bounds"))
        ELSE Err(add_field_to_error(out.err, columns[idx + 1]))

\* RowSeqAccess::next_element_seed (the caller adds 1 to idx)
next_element_seed(T, row, columns, idx) ==
    LET out == Deserialize(T, row, idx)
    IN  IF out.ok THEN out
        ELSE IF idx >= Len(columns) THEN Err(Panic("index out of bounds"))
        ELSE Err(add_field_to_error(out.err, columns[idx + 1]))

\* IgnoredAny accepts every visit_* call; only the accessor can fail
IgnoredAny(row, columns, idx) ==
    LET val == value("Value", row, idx)
    IN  IF val.ok THEN Ok(VUnit)
        ELSE IF idx >= Len(columns) THEN Err(Panic("index out of bounds"))
        ELSE Err(add_field_to_error(val.err, columns[idx + 1]))

\* The derived field identifier: the index of the field named s, 0 for __ignore
FieldIndex(T, s) ==
    LET hits == {i \in 1..Len(T.v) : T.v[i].n = s}
    IN  IF hits = {} THEN 0 ELSE CHOOSE i \in hits : \A j \in hits : i <= j

\* After the loop of the derived visit_map: a field never set is
\* missing_field, which only an Option field turns into None
RECURSIVE StructFinish(_, _, _, _)
StructFinish(T, got, i, fields) ==
    IF i > Len(T.v) THEN Ok(VStruct(T.n, fields))
    ELSE IF got[i] # <<>>
    THEN StructFinish(T, got, i + 1, Append(fields, [key |-> T.v[i].n, val |-> got[i][1]]))
    ELSE IF T.v[i].t.k = "Option"
    THEN StructFinish(T, got, i + 1, Append(fields, [key |-> T.v[i].n, val |-> VNone]))
    ELSE Err(de_custom("missing field " \o T.v[i].n))

\* The derived visit_map of a struct over RowMapAccess { idx, de }
RECURSIVE StructVisitMap(_, _, _, _, _, _)
StructVisitMap(T, row, columns, idx, got, visited) ==
    LET key == next_key_seed(TString, columns, idx)
    IN  IF key.val = <<>> THEN Outcome(StructFinish(T, got, 1, <<>>), visited)
        ELSE LET f == FieldIndex(T, key.val[1].v)
             IN  IF f = 0
                 THEN LET v == IgnoredAny(row, columns, idx)
                      IN  IF v.ok
                          THEN StructVisitMap(T, row, columns, idx + 1, got,
                                              Append(visited, idx))
                          ELSE Outcome(v, Append(visited, idx))
                 ELSE IF got[f] # <<>>
                 THEN Outcome(Err(de_custom("duplicate field " \o T.v[f].n)), visited)
                 ELSE LET v == next_value_seed(T.v[f].t, row, columns, idx)
                      IN  IF v.ok
                          THEN StructVisitMap(T, row, columns, idx + 1,
                                              [got EXCEPT ![f] = <<v.val>>],
                                              Append(visited, idx))
                          ELSE Outcome(v, Append(visited, idx))

\* HashMap::insert: a key already present keeps its place and takes the value
MapInsert(entries, key, val) ==
    IF \E i \in 1..Len(entries) : entries[i].key = key
    THEN [i \in 1..Len(entries) |->
            IF entries[i].key = key THEN [key |-> key, val |-> val] ELSE entries[i]]
    ELSE Append(entries, [key |-> key, val |-> val])

\* The visit_map of HashMap<K, V> over RowMapAccess { idx, de }
RECURSIVE MapVisitMap(_, _, _, _, _, _)
MapVisitMap(T, row, columns, idx, entries, visited) ==
    LET key == next_key_seed(T.key, columns, idx)
    IN  IF ~key.ok THEN Outcome(key, visited)
        ELSE IF key.val = <<>> THEN Outcome(Ok(VMap(entries)), visited)
        ELSE LET v == next_value_seed(T.v, row, columns, idx)
             IN  IF v.ok
                 THEN MapVisitMap(T, row, columns, idx + 1,
                                  MapInsert(entries, key.val[1], v.val),
                                  Append(visited, idx))
                 ELSE Outcome(v, Append(visited, idx))

\* The visit_seq of a tuple of Len(T.v) elements over RowSeqAccess { idx, de }
RECURSIVE TupleVisitSeq(_, _, _, _, _, _)
TupleVisitSeq(T, row, columns, idx, elems, visited) ==
    IF idx >= Len(T.v) THEN Outcome(Ok(VTuple(elems)), visited)
    ELSE LET v == next_element_seed(T.v[idx + 1], row, columns, idx)
         IN  IF v.ok
             THEN TupleVisitSeq(T, row, columns, idx + 1, Append(elems, v.val),
                                Append(visited, idx))
             ELSE Outcome(v, Append(visited, idx))

\* visitor.visit_newtype_struct(self.row_value())
RowDeserializer_deserialize_newtype_struct(T, row) ==
    LET r == Deserialize(T.v, row, 0)
    IN  IF r.ok THEN Ok(VNewtypeStruct(T.n, r.val)) ELSE r

\* D::deserialize(RowDeserializer { row, columns })
RowDeserializer(T, row, columns) ==
    CASE T.k = "newtype_struct" ->
            Outcome(RowDeserializer_deserialize_newtype_struct(T, row), <<0>>)
      [] T.k = "tuple" -> TupleVisitSeq(T, row, columns, 0, <<>>, <<>>)
      [] T.k = "map" -> MapVisitMap(T, row, columns, 0, <<>>, <<>>)
      [] T.k = "struct" ->
            StructVisitMap(T, row, columns, 0, [i \in 1..Len(T.v) |-> <<>>], <<>>)
      [] OTHER -> Outcome(Deserialize(T, row, 0), <<0>>)

\* from_row_with_columns (src/src/lib.rs)
from_row_with_columns(T, row, columns) == RowDeserializer(T, row, columns)

\* from_row passing no column names on
from_row_without_columns(T, row, names) == from_row_with_columns(T, row, <<>>)

\* from_row (src/src/lib.rs): the columns are the row's statement's own names
from_row(T, row, names) == from_row_with_columns(T, row, names)

(***************************************************************************)
(* DeserRows and DeserRowsRef (src/src/de/iter.rs) over a rusqlite::Rows.  *)
(* A result stream is [rows, names, fails]: the rows the statement yields, *)
(* its column names, and whether the step after the last row fails.  The   *)
(* cursor is [pos, stmt]: the rows stepped over, and whether the Rows still*)
(* holds its statement; it gives the statement up at the end of the rows   *)
(* and on a failed step.  An Option is a sequence of at most one element.  *)
(***************************************************************************)
ColumnNamesNotAvailable == [kind |-> "ColumnNamesNotAvailable", column |-> <<>>, msg |-> ""]

\* self.rows.next(): the next row, Ok(None) at the end, or the step's failure
Rows_next(stream, cursor) ==
    IF ~cursor.stmt THEN [res |-> Ok(<<>>), cursor |-> cursor]
    ELSE IF cursor.pos < Len(stream.rows)
    THEN [res |-> Ok(<<stream.rows[cursor.pos + 1]>>),
          cursor |-> [cursor EXCEPT !.pos = @ + 1]]
    ELSE [res |-> IF stream.fails THEN Err(Rusqlite("SqliteFailure")) ELSE Ok(<<>>),
          cursor |-> [cursor EXCEPT !.stmt = FALSE]]

\* columns_from_rows: rows.column_names(), None once the statement is gone
columns_from_rows(stream, cursor) == IF cursor.stmt THEN <<stream.names>> ELSE <<>>

\* what next() hands back: None, Some(result), or no value when the decode panics
ItemNone == [k |-> "None"]

ItemSome(res) == [k |-> "Some", v |-> res]

ItemPanic == [k |-> "panic"]

\* Some(result) of a decode that returned, no value of one that panicked
ItemOrPanic(res) ==
    IF res = Err(Panic("index out of bounds")) THEN ItemPanic ELSE ItemSome(res)

deser_row(T, row, columns) ==
    IF columns # <<>>
    THEN IF ~row.ok THEN ItemSome(Err(row.err))
         ELSE IF row.val = <<>> THEN ItemNone
         ELSE ItemOrPanic(from_row_with_columns(T, row.val[1], columns[1]).res)
    ELSE ItemSome(Err(ColumnNamesNotAvailable))

\* DeserRows::new / DeserRowsRef::new: the columns are read once, no row is
DeserRows_new(kind, T, stream, cursor) ==
    [kind |-> kind, T |-> T, columns |-> columns_from_rows(stream, cursor),
     start |-> cursor.pos, items |-> <<>>, calls |-> 0]

\* the cursor next() leaves when it steps over one more row after an error
CursorSkippingErrors(item, stream, cursor) ==
    IF item.k = "Some" /\ ~item.v.ok THEN Rows_next(stream, cursor).cursor ELSE cursor

\* next() stepping over one more row when the row it decoded was an error
DeserRows_next_skipping_errors(wrapper, stream, cursor) ==
    [item |-> deser_row(wrapper.T, Rows_next(stream, cursor).res, wrapper.columns),
     cursor |-> CursorSkippingErrors(
                    deser_row(wrapper.T, Rows_next(stream, cursor).res, wrapper.columns),
                    stream, Rows_next(stream, cursor).cursor)]

\* Iterator::next of DeserRows and DeserRowsRef:
\* deser_row(self.rows.next(), &self.columns)
DeserRows_next(wrapper, stream, cursor) ==
    LET r == Rows_next(stream, cursor)
    IN  [item |-> deser_row(wrapper.T, r.res, wrapper.columns), cursor |-> r.cursor]

(***************************************************************************)
(* NamedSliceSerializer and ColumNameSerializer (src/src/ser/named.rs).    *)
(***************************************************************************)
\* The name ser_unimpl! / the explicit methods put into the Unsupported error
UnsupportedName(x) ==
    CASE x.k = "str" -> "&str"
      [] x.k = "bytes" -> "&[u8]"
      [] x.k = "none" -> "None"
      [] x.k = "some" -> "Some"
      [] x.k = "unit" -> "()"
      [] OTHER -> x.k

\* ColumNameSerializer without its serialize_char (ser_unimpl!(serialize_char, char))
ColumNameSerializer_str_only(x) ==
    IF x.k = "str" THEN Ok(x.v) ELSE Err(ser_unsupported(x.k))

\* key.serialize(ColumNameSerializer): only a char or a str is a column name
ColumNameSerializer(x) ==
    CASE x.k \in {"char", "str"} -> Ok(x.v)
      [] x.k = "tuple_variant" -> Err(ser_unsupported("type_variant"))
      [] OTHER -> Err(ser_unsupported(UnsupportedName(x)))

\* self.only_fields.contains(&key)
Contains(only_fields, key) == \E i \in 1..Len(only_fields) : only_fields[i] = key

\* add_entry without the only_fields test
add_entry_unfiltered(only_fields, result, key, val) ==
    LET p == ToSqlSerializer(val)
    IN  IF p.ok THEN Ok(Append(result, [name |-> ":" \o key, param |-> p.val]))
        ELSE Err(p.err)

\* add_entry encoding the value before it looks at only_fields
add_entry_encoding_first(only_fields, result, key, val) ==
    LET p == ToSqlSerializer(val)
    IN  IF ~p.ok THEN Err(p.err)
        ELSE IF only_fields = <<>> \/ Contains(only_fields, key)
        THEN Ok(Append(result, [name |-> ":" \o key, param |-> p.val]))
        ELSE Ok(result)

\* NamedSliceSerializer::add_entry: Ok(result) stands for Ok(()) with
\* self.result left as result
add_entry(only_fields, result, key, val) ==
    IF only_fields = <<>> \/ Contains(only_fields, key)
    THEN LET p == ToSqlSerializer(val)
         IN  IF p.ok THEN Ok(Append(result, [name |-> ":" \o key, param |-> p.val]))
             ELSE Err(p.err)
    ELSE Ok(result)

\* SerializeStruct / SerializeStructVariant::serialize_field over the fields
\* from i on, then end()
RECURSIVE Named_fields(_, _, _, _)
Named_fields(only_fields, fields, i, result) ==
    IF i > Len(fields) THEN Ok(result)
    ELSE LET r == add_entry(only_fields, result, fields[i].key, fields[i].val)
         IN  IF r.ok THEN Named_fields(only_fields, fields, i + 1, r.val) ELSE r

\* SerializeMap::serialize_key then serialize_value over the entries from i
\* on, then end()
RECURSIVE Named_entries(_, _, _, _)
Named_entries(only_fields, entries, i, result) ==
    IF i > Len(entries) THEN Ok(result)
    ELSE LET entry_key == ColumNameSerializer(entries[i].key)
         IN  IF ~entry_key.ok THEN entry_key
             ELSE LET r == add_entry(only_fields, result, entry_key.val, entries[i].val)
                  IN  IF r.ok THEN Named_entries(only_fields, entries, i + 1, r.val)
                      ELSE r

\* value.serialize(NamedSliceSerializer::with_only_fields(only_fields))
RECURSIVE NamedSliceSerializer(_, _)
NamedSliceSerializer(only_fields, x) ==
    CASE x.k \in {"some", "newtype_struct", "newtype_variant"} ->
            NamedSliceSerializer(only_fields, x.v)
      [] x.k = "map" -> Named_entries(only_fields, x.v, 1, <<>>)
      [] x.k \in {"struct", "struct_variant"} -> Named_fields(only_fields, x.v, 1, <<>>)
      [] x.k = "unit_variant" -> Err(ser_unsupported("&str"))
      [] OTHER -> Err(ser_unsupported(UnsupportedName(x)))

\* to_params_named_with_fields (src/src/lib.rs)
to_params_named_with_fields(obj, fields) == NamedSliceSerializer(fields, obj)

\* to_params_named (src/src/lib.rs): NamedSliceSerializer::default()
to_params_named(obj) == NamedSliceSerializer(<<>>, obj)

(***************************************************************************)
(* The storage layer between an encode and a decode, as the tests drive    *)
(* it (INSERT with the parameters, then SELECT the row back).              *)
(***************************************************************************)
\* Binding a parameter and reading the column back: SQLite stores a NaN
\* REAL as NULL (test_float checks typeof(test_column) == 'null')
Bind(param) == IF param.k = "Real" /\ is_nan(param.v) THEN Null ELSE param

(***************************************************************************)
(* The inputs the operations are applied to.                               *)
(***************************************************************************)
IntSamples(t) ==
    {n \in {MinOf(t), -1, 0, 1, 5, I64_MAX - 1, I64_MAX, I64_MAX + 1, MaxOf(t)} :
        InRange(t, n)}

F64Samples ==
    {NaN, PosInf, NegInf, NegZero, Fin(0), Fin(1), Fin(2), Fin(-3), Fin(F32Limit + 1)}

IsF32(f) == f.cls # "Fin" \/ (f.n % 2 = 0 /\ f.n <= F32Limit /\ f.n >= -F32Limit)

F32Samples == {f \in F64Samples : IsF32(f)}

Chars == {"a", "A"}

Strings == {"", "a", "A", "ab", "B", "C", "N"}

ByteSamples == {0, 1, MaxOf("u8")}

ByteSeqs == UNION {[1..n -> ByteSamples] : n \in 0..MaxBlobLen}

\* enum Test { A, B, C } of test_enum
UnitEnum ==
    TEnum("Test", <<[n |-> "A", shape |-> "unit"], [n |-> "B", shape |-> "unit"],
                    [n |-> "C", shape |-> "unit"]>>)

\* an enum with one variant of each shape
PayloadEnum ==
    TEnum("Payload", <<[n |-> "A", shape |-> "unit"], [n |-> "N", shape |-> "newtype"],
                       [n |-> "T", shape |-> "tuple"], [n |-> "S", shape |-> "struct"]>>)

Enums == {UnitEnum, PayloadEnum}

UnitVariants ==
    {VUnitVariant(E.n, E.v[i].n) : <<E, i>> \in
        {<<E, i>> \in Enums \X (1..4) : i <= Len(E.v) /\ E.v[i].shape = "unit"}}

UnitStructs == {VUnitStruct("A"), VUnitStruct("Test")}

Scalars ==
    {VBool(b) : b \in BOOLEAN}
    \cup UNION {{VInt(t, n) : n \in IntSamples(t)} : t \in IntTypes}
    \cup {VF32(f) : f \in F32Samples}
    \cup {VF64(f) : f \in F64Samples}
    \cup {VChar(c) : c \in Chars}
    \cup {VStr(z) : z \in Strings}
    \cup {VBytes(b) : b \in ByteSeqs}

\* the primitive values the crate documents as supported
SupportedScalars == {x \in Scalars : x.k = "u64" => x.v <= I64_MAX}

Wrapped == {VBool(TRUE), VInt("i64", 5), VInt("u8", 1), VF64(Fin(1)), VF64(NaN),
            VStr("ab"), VBytes(<<1>>)}

SupportedPrimitives ==
    SupportedScalars
    \cup {VNone, VUnit}
    \cup {VSome(VInt("i64", n)) : n \in IntSamples("i64")}
    \cup {VNewtypeStruct("W", x) : x \in Wrapped}

Elements == {VInt("i64", 5), VInt("u8", 1), VStr("a"), VF64(NaN), VNone,
             VInt("u64", U64_MAX), VTuple(<<VInt("i64", 5)>>)}

\* generic sequences: Vec<u8>, and vectors with an element that is not a u8
Seqs ==
    {VSeq(xs) : xs \in UNION {[1..n -> {VInt("u8", 0), VInt("u8", 1), VInt("i64", 5)}] :
                               n \in 0..MaxBlobLen}}

\* values of more than one part, met as one element of a tuple
NestedComposites ==
    {VTuple(<<VInt("i64", 5), VStr("a")>>),
     VTupleStruct("TS", <<VInt("i64", 5), VStr("a")>>),
     VTupleVariant("T", <<VInt("i64", 5)>>),
     VSome(VTuple(<<VInt("i64", 5)>>)),
     VMap(<<[key |-> VStr("id"), val |-> VInt("i64", 5)]>>),
     VStruct("S", <<[key |-> "id", val |-> VInt("i64", 5)]>>),
     VStructVariant("S", <<[key |-> "id", val |-> VInt("i64", 5)]>>)}

Composites ==
    Seqs
    \cup {VTuple(<<VStr("a"), z>>) : z \in NestedComposites}
    \cup {VTuple(<<z>>) : z \in Seqs}
    \cup {VTuple(<<VInt("i64", 5), z>>) : z \in Seqs}
    \cup {VTuple(xs) : xs \in UNION {[1..n -> Elements] : n \in 1..2}}
    \cup {VTupleStruct("TS", <<VInt("i64", 5), VStr("a")>>),
          VTupleVariant("T", <<VInt("i64", 5)>>),
          VNewtypeVariant("N", VInt("i64", 5)),
          VSome(VTuple(<<VInt("i64", 5)>>)),
          VMap(<<[key |-> VStr("id"), val |-> VInt("i64", 5)]>>),
          VStruct("S", <<[key |-> "id", val |-> VInt("i64", 5)]>>),
          VStructVariant("S", <<[key |-> "id", val |-> VInt("i64", 5)]>>)}

Sources == Scalars \cup SupportedPrimitives \cup UnitVariants \cup UnitStructs \cup Composites

FieldNames == <<"id", "name", "a">>

FieldNameSet == {FieldNames[i] : i \in 1..Len(FieldNames)}

FieldValues == {VInt("i32", 5), VStr("a")}

StructSources ==
    {VStruct("Food", fs) :
        fs \in UNION {[1..n -> [key : FieldNameSet, val : FieldValues]] : n \in 0..MaxFields}}
    \cup {VStruct("Food", <<[key |-> "id", val |-> x], [key |-> "name", val |-> VStr("a")]>>) :
            x \in {VInt("u64", U64_MAX), VTuple(<<VInt("i64", 5)>>), VF64(NaN), VNone}}
    \cup {VStruct("Food", <<[key |-> "name", val |-> VStr("a")], [key |-> "id", val |-> z]>>) :
            z \in Seqs \cup NestedComposites}

MapSources ==
    {VMap(es) :
        es \in UNION {[1..n -> [key : {VStr("id"), VChar("a"), VInt("i64", 1)},
                                val : {VInt("i32", 5), VStr("a")}]] : n \in 0..2}}

NamedSources ==
    StructSources \cup MapSources
    \cup {VMap(<<[key |-> VStr("id"), val |-> x], [key |-> VStr("name"), val |-> VStr("a")]>>) :
            x \in {VInt("u64", U64_MAX), VTuple(<<VInt("i64", 5)>>)}}
    \cup {VMap(<<[key |-> VStr("id"), val |-> VInt("u64", U64_MAX)],
                 [key |-> VInt("i64", 1), val |-> VStr("a")]>>)}
    \cup {VStructVariant("S", <<[key |-> "id", val |-> VInt("i64", 5)]>>),
          VSome(VStruct("Food", <<[key |-> "id", val |-> VInt("i32", 5)]>>)),
          VNewtypeStruct("W", VStruct("Food", <<[key |-> "name", val |-> VStr("a")]>>))}
    \cup {VInt("i64", 5), VStr("a"), VBytes(<<1>>), VUnit, VNone, VUnitVariant("Test", "A"),
          VUnitStruct("A"), VSeq(<<VInt("u8", 1)>>), VTuple(<<VInt("i64", 5)>>),
          VSome(VInt("i64", 5)), VNewtypeStruct("W", VStr("a")), VBool(TRUE),
          VF64(Fin(1)), VChar("a")}

AllowNames == FieldNameSet \cup {"other"}

AllowLists == UNION {[1..n -> AllowNames] : n \in 0..2}

\* the target type a source value round-trips into
RECURSIVE TypeOf(_)
TypeOf(x) ==
    CASE x.k = "bool" -> TBool
      [] x.k \in IntTypes -> TInt(x.k)
      [] x.k = "f32" -> TF32
      [] x.k = "f64" -> TF64
      [] x.k = "char" -> TChar
      [] x.k = "str" -> TString
      [] x.k = "bytes" -> TByteBuf
      [] x.k = "none" -> TOption(TInt("i64"))
      [] x.k = "some" -> TOption(TypeOf(x.v))
      [] x.k = "unit" -> TUnit
      [] x.k = "unit_struct" -> TUnitStruct(x.n)
      [] x.k = "unit_variant" -> CHOOSE E \in Enums : E.n = x.n
      [] x.k = "newtype_struct" -> TNewtypeStruct(x.n, TypeOf(x.v))
      [] x.k = "seq" -> TVecU8
      [] x.k = "tuple" -> TTuple([i \in 1..Len(x.v) |-> TypeOf(x.v[i])])
      [] x.k = "struct" ->
            TStruct(x.n, [i \in 1..Len(x.v) |-> [n |-> x.v[i].key, t |-> TypeOf(x.v[i].val)]])
      [] OTHER -> TUnit

\* a tuple, a map and a struct met as the target of one column
NestedTargets ==
    {TTuple(<<TInt("u8"), TInt("i64")>>), TMap(TString, TInt("i64")),
     TStruct("Deser", <<[n |-> "name", t |-> TInt("u8")]>>)}

ScalarTargets ==
    {TBool, TF32, TF64, TChar, TString, TByteBuf, TVecU8, TUnit}
    \cup {TInt(t) : t \in IntTypes}
    \cup {TOption(TInt("i64")), TOption(TF64)}
    \cup {TUnitStruct("A"), TUnitStruct("Test")}
    \cup Enums
    \cup {TypeOf(VNewtypeStruct("W", x)) : x \in Wrapped}
    \cup {TNewtypeStruct("W", T) : T \in NestedTargets}

StructTargets ==
    {TStruct("Deser", <<[n |-> "id", t |-> TF64], [n |-> "name", t |-> TInt("i64")]>>),
     TStruct("Deser", <<[n |-> "name", t |-> TString], [n |-> "id", t |-> TOption(TInt("i64"))]>>),
     TStruct("Deser", <<[n |-> "id", t |-> PayloadEnum], [n |-> "name", t |-> TInt("i64")]>>),
     TStruct("Deser", <<[n |-> "id", t |-> TByteBuf], [n |-> "name", t |-> TBool]>>),
     TStruct("Deser", <<[n |-> "name", t |-> TInt("u8")]>>)}

MapTargets == {TMap(TString, TInt("i64")), TMap(TChar, TString), TMap(TString, UnitEnum)}

TupleTargets ==
    {TTuple(<<TInt("i64")>>), TTuple(<<TInt("i64"), TString>>),
     TTuple(<<TString, PayloadEnum>>),
     TTuple(<<TOption(TInt("i64")), TInt("i64"), TString>>)}

RowTargets == StructTargets \cup MapTargets \cup TupleTargets

Targets == ScalarTargets \cup RowTargets

\* what a one-column row can hold
DbValues ==
    {Null}
    \cup {Integer(n) : n \in IntSamples("i64")}
    \cup {Real(f) : f \in F64Samples \ {NaN}}
    \cup {Text(z) : z \in Strings \cup {"S", "T", "Test"}}
    \cup {Blob(b) : b \in ByteSeqs}

SmallValues == {Null, Integer(5), Text("a"), Text("N")}

DbRows ==
    {<<x>> : x \in DbValues} \cup UNION {[1..n -> SmallValues] : n \in 2..MaxCols}

\* the column names a statement of n columns can have
NamesFor(n) ==
    {[i \in 1..n |-> FieldNames[((i - 1) % Len(FieldNames)) + 1]],
     [i \in 1..n |-> FieldNames[((n - i) % Len(FieldNames)) + 1]],
     [i \in 1..n |-> "id"]}

\* the columns argument of from_row_with_columns
ColumnLists == UNION {[1..n -> {"id", "name"}] : n \in 0..MaxCols}
               \cup {[i \in 1..(MaxCols + 1) |-> "a"]}

(***************************************************************************)
(* The state machine: a caller encodes a value, runs the statement, fetches*)
(* a row and decodes it.                                                   *)
(***************************************************************************)
VARIABLES
    op,      \* the operation that ran last
    src,     \* the value given to the last encode
    only,    \* the allow-list given to the last encode
    params,  \* the result of the last encode
    row,     \* the row fetched last
    names,   \* the column names of that row's statement
    origin,  \* where the row's values came from
    target,  \* the type the last decode asked for
    cols,    \* the columns the last decode was given
    out      \* the outcome of the last decode

vars == <<op, src, only, params, row, names, origin, target, cols, out>>

Nothing == Err([kind |-> "Nothing", column |-> <<>>, msg |-> ""])

VARIABLES
    stream,   \* the result stream of the query that ran
    cursor,   \* the rusqlite::Rows over it
    wrapper,  \* the DeserRows or DeserRowsRef built over the cursor
    direct    \* the last row the caller took from the cursor itself

ivars == <<stream, cursor, wrapper, direct>>

NoStream == [queried |-> FALSE, rows |-> <<>>, names |-> <<>>, fails |-> FALSE]

NoWrapper ==
    [kind |-> "none", T |-> TUnit, columns |-> <<>>, start |-> 0, items |-> <<>>,
     calls |-> 0]

NoDirect == [when |-> "never", T |-> TUnit, idx |-> 0, res |-> Nothing]

\* no query ran
IterInit ==
    /\ stream = NoStream
    /\ cursor = [pos |-> 0, stmt |-> FALSE]
    /\ wrapper = NoWrapper
    /\ direct = NoDirect

\* nothing encoded, no row fetched, nothing decoded
Init ==
    /\ op = "init"
    /\ src = VUnit /\ only = <<>> /\ params = Nothing
    /\ row = <<>> /\ names = <<>> /\ origin = "none"
    /\ target = TUnit /\ cols = <<>> /\ out = Outcome(Nothing, <<>>)
    /\ IterInit

\* a new encode, row or decode forgets what the earlier ones left
ForgetEncode == src' = VUnit /\ only' = <<>> /\ params' = Nothing

ForgetRow == row' = <<>> /\ names' = <<>> /\ origin' = "none"

ForgetDecode == target' = TUnit /\ cols' = <<>> /\ out' = Outcome(Nothing, <<>>)

\* to_params(obj)
ToParams ==
    /\ op = "init"
    /\ UNCHANGED ivars
    /\ \E x \in Sources :
        /\ op' = "to_params"
        /\ src' = x
        /\ only' = <<>>
        /\ params' = to_params(x)
        /\ ForgetRow /\ ForgetDecode

\* to_params_named_with_fields(obj, fields); to_params_named is fields = []
ToParamsNamed ==
    /\ op = "init"
    /\ UNCHANGED ivars
    /\ \E x \in NamedSources, fields \in AllowLists :
        /\ op' = "to_params_named"
        /\ src' = x
        /\ only' = fields
        /\ params' = to_params_named_with_fields(x, fields)
        /\ ForgetRow /\ ForgetDecode

\* execute("INSERT ... VALUES(?, ...)", params) and query the row back
Execute ==
    /\ op = "to_params" /\ params.ok
    /\ UNCHANGED ivars
    /\ Len(params.val) \in 1..Len(FieldNames)
    /\ op' = "execute"
    /\ row' = [i \in 1..Len(params.val) |-> Bind(params.val[i])]
    /\ names' = SubSeq(FieldNames, 1, Len(params.val))
    /\ origin' = "to_params"
    /\ ForgetDecode
    /\ UNCHANGED <<src, only, params>>

\* execute("INSERT ... VALUES(:a, ...)", to_params_named(obj)) with one
\* column per parameter, named as the parameter, and query the row back
ExecuteNamed ==
    /\ op = "to_params_named" /\ params.ok /\ only = <<>>
    /\ UNCHANGED ivars
    /\ Len(params.val) >= 1
    /\ op' = "execute"
    /\ row' = [i \in 1..Len(params.val) |-> Bind(params.val[i].param)]
    /\ names' = [i \in 1..Len(params.val) |->
                    CHOOSE c \in FieldNameSet : ":" \o c = params.val[i].name]
    /\ origin' = "to_params_named"
    /\ ForgetDecode
    /\ UNCHANGED <<src, only, params>>

\* a row of a table this crate did not fill
Fetch ==
    /\ op = "init"
    /\ UNCHANGED ivars
    /\ \E r \in DbRows :
        \E ns \in NamesFor(Len(r)) :
            /\ op' = "fetch"
            /\ row' = r
            /\ names' = ns
            /\ origin' = "db"
            /\ ForgetEncode /\ ForgetDecode

HasRow == op \in {"execute", "fetch"}

\* from_row::<T>(row)
FromRow ==
    /\ HasRow
    /\ UNCHANGED ivars
    /\ \E T \in Targets :
        /\ op' = "from_row"
        /\ target' = T
        /\ cols' = names
        /\ out' = from_row(T, row, names)
    /\ UNCHANGED <<src, only, params, row, names, origin>>

\* from_row_with_columns::<T>(row, columns)
FromRowWithColumns ==
    /\ HasRow
    /\ UNCHANGED ivars
    /\ \E T \in RowTargets \cup {TInt("i64"), TOption(TF64), UnitEnum}, columns \in ColumnLists :
        /\ op' = "from_row_with_columns"
        /\ target' = T
        /\ cols' = columns
        /\ out' = from_row_with_columns(T, row, columns)
    /\ UNCHANGED <<src, only, params, row, names, origin>>

\* the caller drops the row and the results
Release ==
    /\ op \in {"from_row", "from_row_with_columns"}
    /\ UNCHANGED ivars
    /\ op' = "init"
    /\ ForgetEncode /\ ForgetRow /\ ForgetDecode

Next ==
    \/ ToParams
    \/ ToParamsNamed
    \/ Execute
    \/ ExecuteNamed
    \/ Fetch
    \/ FromRow
    \/ FromRowWithColumns
    \/ Release

Spec == Init /\ [][Next]_<<vars, ivars>>

(***************************************************************************)
(* The state machine of a caller reading a result stream: it runs a query, *)
(* takes rows from the cursor itself or through a wrapper, and may drop a  *)
(* borrowing wrapper and go on with the cursor.                            *)
(***************************************************************************)
\* the rows of SELECT id, name FROM ...
IterNames == <<"id", "name">>

IterRows == {<<Integer(5), Text("a")>>, <<Text("a"), Text("a")>>, <<Null, Integer(5)>>}

RowStreams == UNION {[1..n -> IterRows] : n \in 0..MaxRows}

IterTargets ==
    {TStruct("Deser", <<[n |-> "name", t |-> TString], [n |-> "id", t |-> TOption(TInt("i64"))]>>),
     TMap(TString, TString),
     TTuple(<<TInt("i64"), TString>>),
     TTuple(<<TOption(TInt("i64")), TInt("i64"), TString>>),
     TInt("i64")}

\* the calls of next() a caller makes on one wrapper: enough to pass the last
\* row, a failed step and the end twice
MaxCalls == MaxRows + 3

\* statement.query([])
Query ==
    /\ ~stream.queried
    /\ \E rows \in RowStreams, fails \in BOOLEAN :
        /\ stream' = [queried |-> TRUE, rows |-> rows, names |-> IterNames, fails |-> fails]
        /\ cursor' = [pos |-> 0, stmt |-> TRUE]
    /\ UNCHANGED <<wrapper, direct>>
    /\ UNCHANGED vars

\* from_row::<T>(rows.next()) on the cursor itself, before a wrapper is built
\* or once after a borrowing wrapper was dropped
RowsNext ==
    /\ stream.queried
    /\ \/ wrapper.kind = "none"
       \/ wrapper.kind = "dropped" /\ direct.when # "after"
    /\ \E T \in IterTargets :
        /\ wrapper.kind = "dropped" => T = wrapper.T
        /\ LET r == Rows_next(stream, cursor)
           IN  /\ cursor' = r.cursor
               /\ direct' =
                    [when |-> IF wrapper.kind = "dropped" THEN "after" ELSE "before",
                     T |-> T,
                     idx |-> IF r.res.ok /\ r.res.val # <<>> THEN r.cursor.pos ELSE 0,
                     res |-> IF r.res.ok /\ r.res.val # <<>>
                             THEN from_row(T, r.res.val[1], stream.names).res
                             ELSE Nothing]
    /\ UNCHANGED <<stream, wrapper>>
    /\ UNCHANGED vars

\* from_rows::<T>(rows)
FromRows ==
    /\ stream.queried /\ wrapper.kind = "none"
    /\ \E T \in IterTargets : wrapper' = DeserRows_new("owned", T, stream, cursor)
    /\ UNCHANGED <<stream, cursor, direct>>
    /\ UNCHANGED vars

\* from_rows_ref::<T>(&mut rows)
FromRowsRef ==
    /\ stream.queried /\ wrapper.kind = "none"
    /\ \E T \in IterTargets : wrapper' = DeserRows_new("ref", T, stream, cursor)
    /\ UNCHANGED <<stream, cursor, direct>>
    /\ UNCHANGED vars

\* what a call of next() that handed back n leaves behind; a panic in the
\* decode unwinds the caller, the rows stay stepped over
Returned(n) ==
    /\ cursor' = n.cursor
    /\ wrapper' =
         IF n.item = ItemPanic
         THEN [wrapper EXCEPT !.kind = "panicked", !.calls = @ + 1]
         ELSE [wrapper EXCEPT !.items = Append(@, n.item), !.calls = @ + 1]

\* res.next()
WrapperNext ==
    /\ wrapper.kind \in {"owned", "ref"}
    /\ wrapper.calls < MaxCalls
    /\ Returned(DeserRows_next(wrapper, stream, cursor))
    /\ UNCHANGED <<stream, direct>>
    /\ UNCHANGED vars

\* the borrowing wrapper goes out of scope
DropRef ==
    /\ wrapper.kind = "ref"
    /\ wrapper' = [wrapper EXCEPT !.kind = "dropped"]
    /\ UNCHANGED <<stream, cursor, direct>>
    /\ UNCHANGED vars

IterNext ==
    \/ Query
    \/ RowsNext
    \/ FromRows
    \/ FromRowsRef
    \/ WrapperNext
    \/ DropRef

\* a caller that holds a wrapper goes on calling next()
IterSpec == Init /\ [][IterNext]_<<vars, ivars>> /\ WF_<<vars, ivars>>(WrapperNext)

(***************************************************************************)
(* The properties.                                                         *)
(***************************************************************************)
Floats == {"f32", "f64"}

Decoded == op \in {"from_row", "from_row_with_columns"}

\* x is a NaN float, bare or in a newtype wrapper
IsNaNValue(x) ==
    \/ x.k \in Floats /\ is_nan(x.v)
    \/ x.k = "newtype_struct" /\ x.v.k \in Floats /\ is_nan(x.v.v)

\* y is what x must come back as: equal to x, or NaN of x's type for NaN
SameValue(x, y) ==
    IF IsNaNValue(x) THEN y.k = x.k /\ IsNaNValue(y) ELSE y = x

\* C1: every supported primitive value (bool, the integers up to i64::MAX,
\* the floats with the infinities, char, String, byte buffer, Some(i64), None,
\* unit, a newtype wrapper) is encoded by to_params into one storage value, and
\* from_row of the stored row into the same type returns a value equal to the
\* original; for NaN the decoded value is NaN.
C1_RoundTrip ==
    /\ (op = "to_params" /\ src \in SupportedPrimitives)
            => params.ok /\ Len(params.val) = 1
    /\ (op = "from_row" /\ origin = "to_params" /\ src \in SupportedPrimitives
            /\ target = TypeOf(src))
            => out.res.ok /\ SameValue(src, out.res.val)

C1_Witness ==
    /\ op = "from_row" /\ origin = "to_params"
    /\ src = VF64(NaN) /\ target = TF64
    /\ row = <<Null>>
    /\ out.res.ok /\ is_nan(out.res.val.v)

\* C2: the primitive encoder maps an unsigned 64-bit v to Integer(v) exactly
\* when v <= i64::MAX (i64::MAX itself succeeds and keeps its value); for every
\* larger v it returns ValueTooLarge and no parameter; v is never wrapped or
\* truncated.  The same holds for a u64 field the named builder emits.
C2_U64Range ==
    /\ (op = "to_params" /\ src.k = "u64")
            => IF src.v <= I64_MAX
               THEN params = Ok(<<Integer(src.v)>>)
               ELSE ~params.ok /\ params.err.kind = "ValueTooLarge"
    /\ (op = "to_params_named" /\ src.k = "struct" /\ Len(src.v) >= 1
            /\ src.v[1].val.k = "u64" /\ src.v[1].val.v > I64_MAX
            /\ (only = <<>> \/ \E i \in 1..Len(only) : only[i] = src.v[1].key))
            => ~params.ok /\ params.err.kind = "ValueTooLarge"

C2_Witness ==
    /\ op = "to_params"
    /\ src = VInt("u64", I64_MAX + 1)
    /\ ~params.ok /\ params.err.kind = "ValueTooLarge"

\* C3 as the claim states it: the primitive encoder itself returns Null for a
\* NaN f32 or f64 and Real for every other float.
C3_EncoderReturnsNull ==
    (op = "to_params" /\ src.k \in Floats)
        => params = Ok(<<IF is_nan(src.v) THEN Null ELSE Real(src.v)>>)

\* C3, amended: the primitive encoder returns Real for every f32 and f64, NaN
\* included (for NaN it returns Real(NaN)); the NaN becomes Null when the
\* parameter is bound and stored, so the stored value is Null for NaN and
\* Real for every other float.
C3_NaNStoredAsNull ==
    /\ (op \in {"to_params", "execute"} /\ src.k \in Floats)
            => params = Ok(<<Real(src.v)>>)
    /\ (op = "execute" /\ origin = "to_params" /\ src.k \in Floats)
            => row = <<IF is_nan(src.v) THEN Null ELSE Real(src.v)>>

C3_Witness ==
    /\ op = "execute" /\ origin = "to_params"
    /\ src = VF32(NaN)
    /\ params = Ok(<<Real(NaN)>>)
    /\ row = <<Null>>

\* C4: the same stored Null decodes by target shape: into bare f32/f64 it
\* succeeds with NaN, into Option<T> it succeeds with None; a non-Null value
\* decodes into Option<T> as Some(the decode of T from that same value), and
\* fails exactly when that decode of T fails.
C4_NullByTarget ==
    (Decoded /\ Len(row) >= 1)
        => /\ (target \in {TF32, TF64} /\ row[1] = Null)
                => out.res.ok /\ out.res.val.k = target.k /\ is_nan(out.res.val.v)
           /\ (target.k = "Option" /\ row[1] = Null)
                => out.res = Ok(VNone)
           /\ (target.k = "Option" /\ row[1] # Null)
                => LET inner == Deserialize(target.v, row, 0)
                   IN  out.res = IF inner.ok THEN Ok(VSome(inner.val)) ELSE inner

C4_Witness ==
    /\ op = "from_row" /\ origin = "db"
    /\ row = <<Null>>
    /\ target = TF64
    /\ out.res.ok /\ is_nan(out.res.val.v)

\* C5: decoding into bool, Integer(n) yields n != 0 and Real(r) yields
\* r != 0.0 (Integer(0), Real(0.0) and Real(-0.0) are false, every other number
\* is true); Null, Text and Blob each yield an error, never a bool.
C5_Bool ==
    (Decoded /\ target = TBool /\ Len(row) >= 1)
        => CASE row[1].k = "Integer" -> out.res = Ok(VBool(row[1].v # 0))
             [] row[1].k = "Real" ->
                    out.res = Ok(VBool(~(row[1].v \in {Fin(0), NegZero})))
             [] OTHER -> ~out.res.ok

C5_Witness ==
    /\ op = "from_row"
    /\ target = TBool
    /\ row = <<Real(Fin(-3))>>
    /\ out.res = Ok(VBool(TRUE))

\* the names of the variants of enum E
VariantNames(E) == {E.v[i].n : i \in 1..Len(E.v)}

\* the shape of the variant of E named s
ShapeOf(E, s) == LET i == CHOOSE j \in 1..Len(E.v) : E.v[j].n = s IN E.v[i].shape

\* C6: a unit variant encodes to Text holding exactly the variant name;
\* decoding a Text into a unit-only enum selects the variant whose name equals
\* the text exactly and fails for every other text; so every variant of a
\* unit-only enum round-trips to itself and never decodes to another variant.
C6_UnitVariant ==
    /\ (op = "to_params" /\ src.k = "unit_variant")
            => params = Ok(<<Text(src.v)>>)
    /\ (Decoded /\ target = UnitEnum /\ Len(row) >= 1 /\ row[1].k = "Text")
            => IF row[1].v \in VariantNames(target)
               THEN out.res = Ok(VUnitVariant(target.n, row[1].v))
               ELSE ~out.res.ok
    /\ (op = "from_row" /\ origin = "to_params" /\ src.k = "unit_variant"
            /\ target = UnitEnum /\ src.n = target.n)
            => out.res = Ok(src)

C6_Witness ==
    /\ op = "from_row" /\ origin = "to_params"
    /\ src = VUnitVariant("Test", "B")
    /\ row = <<Text("B")>>
    /\ target = UnitEnum
    /\ out.res = Ok(VUnitVariant("Test", "B"))

\* C7 as the claim states it: the primitive encoder encodes None, the unit
\* value and a payload-less enum variant each to Null.
C7_AllNull ==
    (op = "to_params" /\ src.k \in {"none", "unit", "unit_variant"})
        => params = Ok(<<Null>>)

\* C7, amended: the primitive encoder encodes None and the unit value to
\* Null; a payload-less enum variant it encodes to Text holding the variant
\* name, not to Null.
C7_NoneUnitNull ==
    /\ (op = "to_params" /\ src.k \in {"none", "unit"})
            => params = Ok(<<Null>>)
    /\ (op = "to_params" /\ src.k = "unit_variant")
            => params = Ok(<<Text(src.v)>>)

C7_Witness ==
    /\ op = "to_params"
    /\ src = VNone
    /\ params = Ok(<<Null>>)

EntryName(x, e) == IF x.k = "map" THEN e.key.v ELSE e.key

\* the fields or entries of x whose name is in the allow-list, in x's order
Listed(x, allow) ==
    SelectSeq(x.v, LAMBDA e : \E i \in 1..Len(allow) : allow[i] = EntryName(x, e))

\* the storage value of a plain field value
Plain(x) == IF x.k = "str" THEN Text(x.v) ELSE Integer(x.v)

\* C9: with a non-empty allow-list the named builder emits exactly the source
\* fields or keys whose name is in the allow-list, one entry per such source
\* field, in source order (not allow-list order, not deduplicated), each name
\* prefixed with ':'; the fields not in the allow-list are dropped without error.
C9_AllowList ==
    (/\ op = "to_params_named" /\ only # <<>>
     /\ src.k \in {"struct", "map"}
     /\ \A i \in 1..Len(src.v) :
            /\ src.k = "map" => src.v[i].key.k \in {"str", "char"}
            /\ src.v[i].val.k \in {"i32", "str"})
        => /\ params.ok
           /\ params.val = [i \in 1..Len(Listed(src, only)) |->
                                [name |-> ":" \o EntryName(src, Listed(src, only)[i]),
                                 param |-> Plain(Listed(src, only)[i].val)]]

C9_Witness ==
    /\ op = "to_params_named"
    /\ only = <<"a", "id">>
    /\ src.k = "struct"
    /\ [i \in 1..Len(src.v) |-> src.v[i].key] = <<"id", "name", "a">>
    /\ params.ok
    /\ [i \in 1..Len(params.val) |-> params.val[i].name] = <<":id", ":a">>

\* the column the row decode visited last
FailIdx == out.visited[Len(out.visited)]

\* the type of the field or entry decoded from the column visited last
FailType ==
    CASE target.k = "map" -> target.v
      [] target.k = "struct" /\ FieldIndex(target, cols[FailIdx + 1]) # 0 ->
            target.v[FieldIndex(target, cols[FailIdx + 1])].t
      [] OTHER -> TUnit

\* the storage kinds a field type accepts
Kinds(T) ==
    CASE T.k = "bool" -> {"Integer", "Real"}
      [] T.k \in IntTypes -> {"Integer"}
      [] T.k \in Floats -> {"Null", "Integer", "Real"}
      [] T.k \in {"char", "String", "enum"} -> {"Text"}
      [] T.k = "ByteBuf" -> {"Blob"}
      [] T.k = "Option" /\ T.v.k \in IntTypes -> {"Null", "Integer"}
      [] OTHER -> {"Null", "Integer", "Real", "Text", "Blob"}

\* the row decode into a struct or map read a column of a kind its field
\* type cannot accept
KindMismatch ==
    /\ Decoded /\ target.k \in {"struct", "map"}
    /\ out.visited # <<>> /\ FailIdx < Len(row)
    /\ row[FailIdx + 1].k \notin Kinds(FailType)

\* C10 as the claim states it: every such mismatch yields a Deserialization
\* error whose column is the name of the column where it occurred.
C10_AlwaysDeserialization ==
    KindMismatch
        => /\ ~out.res.ok
           /\ out.res.err.kind = "Deserialization"
           /\ out.res.err.column = <<cols[FailIdx + 1]>>

\* C10, amended: such a mismatch yields a Deserialization error whose column
\* is exactly the name of the column at the cursor index of the failing value,
\* unless the field is an enum or a byte buffer: those fetch the column
\* through a typed accessor, whose failure is returned as a driver error that
\* carries no column.
C10_ErrorColumn ==
    KindMismatch
        => /\ ~out.res.ok
           /\ IF FailType.k \in {"enum", "ByteBuf"}
              THEN out.res.err.kind = "Rusqlite" /\ out.res.err.column = <<>>
              ELSE /\ out.res.err.kind = "Deserialization"
                   /\ out.res.err.column = <<cols[FailIdx + 1]>>

C10_Witness ==
    /\ op = "from_row_with_columns"
    /\ target = TStruct("Deser", <<[n |-> "id", t |-> TF64],
                                   [n |-> "name", t |-> TInt("i64")]>>)
    /\ cols = <<"id", "name">>
    /\ row = <<Integer(5), Text("a")>>
    /\ ~out.res.ok
    /\ out.res.err.kind = "Deserialization"
    /\ out.res.err.column = <<"name">>

RowShapes == {"map", "struct", "tuple"}

\* the row decode went through a cursor and visited at least one column
CursorDecoded == Decoded /\ target.k \in RowShapes /\ out.visited # <<>>

\* the result of the field or element decode at the column visited last: an
\* ignored struct column only fetches the value, every other one decodes its type
FieldResult ==
    CASE target.k = "tuple" -> Deserialize(target.v[FailIdx + 1], row, FailIdx)
      [] target.k = "map" -> Deserialize(target.v, row, FailIdx)
      [] target.k = "struct" ->
            IF FieldIndex(target, cols[FailIdx + 1]) = 0
            THEN value("Value", row, FailIdx)
            ELSE Deserialize(FailType, row, FailIdx)

\* a field or element decode failed
FieldFailed == CursorDecoded /\ ~FieldResult.ok

\* C11 as the claim states it, where the column list names the failing
\* column: every field or element decode failure, of whatever kind, carries
\* the name of its column.
C11_EveryKindAnnotated ==
    (FieldFailed /\ FailIdx < Len(cols))
        => ~out.res.ok /\ out.res.err.column = <<cols[FailIdx + 1]>>

\* C11, amended: a field or element decode failure is annotated with its
\* column name, once, by the cursor that ran the decode, and the annotated
\* error is what the row decode returns, only when the failure is a
\* Deserialization error (a type mismatch or an invalid value); a driver error
\* from the accessor and an Unsupported failure are returned unchanged and
\* carry no column.  When the column list has no name at the failing index the
\* cursor returns nothing: indexing the list panics.
C11_OnlyDeserializationAnnotated ==
    FieldFailed
        => /\ ~out.res.ok
           /\ out.res.err =
                IF FailIdx >= Len(cols) THEN Panic("index out of bounds")
                ELSE IF FieldResult.err.kind = "Deserialization"
                THEN [FieldResult.err EXCEPT !.column = <<cols[FailIdx + 1]>>]
                ELSE FieldResult.err
           /\ (FailIdx < Len(cols) /\ FieldResult.err.kind \in {"Rusqlite", "Unsupported"})
                => out.res.err.column = <<>>

C11_Witness ==
    /\ op = "from_row"
    /\ target = TTuple(<<TString, PayloadEnum>>)
    /\ cols = <<"id", "name">>
    /\ row = <<Text("a"), Text("N")>>
    /\ out.visited = <<0, 1>>
    /\ out.res = Err(de_unsupported("newtype_variant"))

\* no name occurs twice in the list
Distinct(names_) == \A i, j \in 1..Len(names_) : names_[i] = names_[j] => i = j

\* the indices 0..n-1 in order
Upto(n) == [i \in 1..n |-> i - 1]

C13_TupleColumns ==
    (Decoded /\ target.k = "tuple" /\ Len(target.v) <= Len(row))
        => LET N == Len(target.v)
               vals == [i \in 1..N |-> Deserialize(target.v[i], row, i - 1)]
           IN  /\ \E n \in 0..N : out.visited = Upto(n)
               /\ IF \A i \in 1..N : vals[i].ok
                  THEN /\ out.res = Ok(VTuple([i \in 1..N |-> vals[i].val]))
                       /\ out.visited = Upto(N)
                  ELSE ~out.res.ok

C13_Witness ==
    /\ op = "from_row"
    /\ target = TTuple(<<TInt("i64")>>)
    /\ row = <<Integer(5), Text("a")>>
    /\ out.res = Ok(VTuple(<<VInt("i64", 5)>>))
    /\ out.visited = <<0>>

\* the row is narrower than the tuple and every column it has decodes
RowTooShort ==
    /\ Decoded /\ target.k = "tuple" /\ Len(row) < Len(target.v)
    /\ \A i \in 1..Len(row) : Deserialize(target.v[i], row, i - 1).ok

\* C14: decoding a row into a tuple of N elements when the row has fewer
\* than N columns returns, as the error result of the decode, the accessor's
\* own out-of-range failure (a driver error), for every row width and every
\* length of the column list.
C14_ReturnsDriverError ==
    RowTooShort => out.res = Err(Rusqlite("InvalidColumnIndex"))

ElementShapes == {"seq", "tuple", "tuple_struct", "tuple_variant"}

PrimitiveShapes ==
    {"bool", "f32", "f64", "char", "str", "bytes", "none", "unit", "unit_struct",
     "unit_variant"} \cup IntTypes

\* C15: the positional builder turns a tuple, sequence, tuple-struct or
\* tuple-variant source of n elements into a list of exactly n entries, entry i
\* the primitive encoding of element i in source order, and a bare primitive
\* source into a list of exactly one entry, its primitive encoding; it fails
\* when one of these encodings fails.
C15_Positional ==
    /\ (op = "to_params" /\ src.k \in ElementShapes)
            => LET enc == [i \in 1..Len(src.v) |-> ToSqlSerializer(src.v[i])]
               IN  IF \A i \in 1..Len(src.v) : enc[i].ok
                   THEN /\ params = Ok([i \in 1..Len(src.v) |-> enc[i].val])
                        /\ Len(params.val) = Len(src.v)
                   ELSE ~params.ok
    /\ (op = "to_params" /\ src.k \in PrimitiveShapes)
            => LET enc == ToSqlSerializer(src)
               IN  IF enc.ok THEN params = Ok(<<enc.val>>) ELSE ~params.ok

C15_Witness ==
    /\ op = "to_params"
    /\ src = VTuple(<<VStr("a"), VInt("i64", 5)>>)
    /\ params = Ok(<<Text("a"), Integer(5)>>)

NamedShapes == {"map", "struct", "struct_variant"}

\* the source inside its Some and newtype wrappers
RECURSIVE Unwrapped(_)
Unwrapped(x) ==
    IF x.k \in {"some", "newtype_struct", "newtype_variant"} THEN Unwrapped(x.v) ELSE x

\* C16: each builder rejects the other's source shapes: to_params on a map,
\* struct or struct-variant source returns Unsupported, and to_params_named on
\* a source that is not, inside its Some and newtype wrappers, a map, struct or
\* struct-variant returns Unsupported; neither produces a parameter list.
C16_OtherShapes ==
    /\ (op = "to_params" /\ Unwrapped(src).k \in NamedShapes)
            => ~params.ok /\ params.err.kind = "Unsupported"
    /\ (op = "to_params_named" /\ Unwrapped(src).k \notin NamedShapes)
            => ~params.ok /\ params.err.kind = "Unsupported"

C16_Witness ==
    /\ op = "to_params"
    /\ src = VStruct("S", <<[key |-> "id", val |-> VInt("i64", 5)]>>)
    /\ params = Err(ser_unsupported("struct"))

\* what encoding entry e of a named source yields: nothing for an entry the
\* allow-list drops, else the failure of its key or the encoding of its value
EntryResult(e) ==
    LET key == IF src.k = "map" THEN ColumNameSerializer(e.key) ELSE Ok(e.key)
    IN  IF ~key.ok THEN key
        ELSE IF only # <<>> /\ ~Contains(only, key.val) THEN Ok(Null)
        ELSE ToSqlSerializer(e.val)

\* the kinds of the keys of a map source
KeyKinds(x) == {x.v[i].key.k : i \in 1..Len(x.v)}

\* C17 as the claim states it: a map with a key that is not a string fails
\* the whole encode with Unsupported.
C17_OnlyStringKeys ==
    (op = "to_params_named" /\ src.k = "map" /\ KeyKinds(src) \ {"str"} # {})
        => ~params.ok /\ params.err.kind = "Unsupported"

\* the first entry of a map source whose key is neither a string nor a char
FirstBadKey ==
    CHOOSE i \in 1..Len(src.v) :
        /\ src.v[i].key.k \notin {"str", "char"}
        /\ \A h \in 1..(i - 1) : src.v[h].key.k \in {"str", "char"}

\* C17, amended: in the named builder a map key that is neither a string nor
\* a char fails the whole encode, with Unsupported unless the value of an
\* earlier listed entry already failed it, whatever the allow-list; string
\* keys and char keys are never a cause of failure and yield a parameter
\* name, and that name is the key prefixed with ':'.
C17_StringOrCharKeys ==
    /\ (op = "to_params_named" /\ src.k = "map" /\ KeyKinds(src) \ {"str", "char"} # {})
            => /\ ~params.ok
               /\ (\A h \in 1..(FirstBadKey - 1) : EntryResult(src.v[h]).ok)
                    => params.err.kind = "Unsupported"
    /\ (op = "to_params_named" /\ src.k = "map" /\ KeyKinds(src) \subseteq {"str", "char"}
            /\ only = <<>>)
            => /\ params.ok <=> \A i \in 1..Len(src.v) : ToSqlSerializer(src.v[i].val).ok
               /\ params.ok => [i \in 1..Len(params.val) |-> params.val[i].name]
                                = [i \in 1..Len(src.v) |-> ":" \o src.v[i].key.v]

C17_Witness ==
    /\ op = "to_params_named" /\ only = <<>>
    /\ src = VMap(<<[key |-> VChar("a"), val |-> VInt("i32", 5)]>>)
    /\ params = Ok(<<[name |-> ":a", param |-> Integer(5)]>>)

\* C18: for a struct target the result of from_row_with_columns does not
\* depend on the columns argument: for the same row every column list gives
\* the decoded struct, or the error, that the list in hand gave.
C18_ColumnsIgnored ==
    (op = "from_row_with_columns" /\ target.k = "struct")
        => \A columns \in ColumnLists :
                from_row_with_columns(target, row, columns).res = out.res

\* C19: from_row(row) returns the same result, value or error, as
\* from_row_with_columns(row, c) with c the column names of the row's own
\* statement in column order.
C19_FromRow ==
    (op = "from_row")
        => cols = names /\ out = from_row_with_columns(target, row, names)

C19_Witness ==
    /\ op = "from_row"
    /\ target = TMap(TString, TInt("i64"))
    /\ names = <<"name", "id">>
    /\ row = <<Integer(5), Integer(5)>>
    /\ out.res = Ok(VMap(<<[key |-> VStr("name"), val |-> VInt("i64", 5)],
                           [key |-> VStr("id"), val |-> VInt("i64", 5)]>>))

\* C20: a unit struct named N encodes to Text(N); decoding into unit struct N
\* succeeds exactly when the stored value is Text equal to N; Text with any
\* other content, Null, Integer, Real and Blob each yield a type-mismatch
\* error; so encode-then-decode of a unit struct returns it.
C20_UnitStruct ==
    /\ (op = "to_params" /\ src.k = "unit_struct")
            => params = Ok(<<Text(src.n)>>)
    /\ (Decoded /\ target.k = "unit_struct" /\ Len(row) >= 1)
            => IF row[1] = Text(target.n)
               THEN out.res = Ok(VUnitStruct(target.n))
               ELSE ~out.res.ok /\ out.res.err.kind = "Deserialization"
    /\ (op = "from_row" /\ origin = "to_params" /\ src.k = "unit_struct"
            /\ target = TUnitStruct(src.n))
            => out.res = Ok(src)

C20_Witness ==
    /\ op = "from_row" /\ origin = "to_params"
    /\ src = VUnitStruct("Test")
    /\ row = <<Text("Test")>>
    /\ target = TUnitStruct("Test")
    /\ out.res = Ok(VUnitStruct("Test"))

\* the result of the field or element decode at column index j of a row decode
FieldResultAt(j) ==
    CASE target.k = "tuple" -> Deserialize(target.v[j + 1], row, j)
      [] target.k = "map" -> Deserialize(target.v, row, j)
      [] target.k = "struct" ->
            IF FieldIndex(target, cols[j + 1]) = 0
            THEN value("Value", row, j)
            ELSE Deserialize(target.v[FieldIndex(target, cols[j + 1])].t, row, j)

\* the encodings of the elements of a positional source
ElementResults == [i \in 1..Len(src.v) |-> ToSqlSerializer(src.v[i])]

EntryResults == [i \in 1..Len(src.v) |-> EntryResult(src.v[i])]

\* the first failure among results, when there is one
FirstFailure(results) ==
    LET i == CHOOSE j \in 1..Len(results) :
                ~results[j].ok /\ \A h \in 1..(j - 1) : results[h].ok
    IN  Err(results[i].err)

AnyFailure(results) == \E i \in 1..Len(results) : ~results[i].ok

\* the params builders fail as a whole with the first failure of an element
\* or entry; a cursor stops at the first column whose decode fails
EncodeFailFast ==
    /\ (op = "to_params" /\ src.k \in ElementShapes /\ AnyFailure(ElementResults))
            => params = FirstFailure(ElementResults)
    /\ (op = "to_params_named" /\ src.k \in NamedShapes /\ AnyFailure(EntryResults))
            => params = FirstFailure(EntryResults)

DecodeStopsAtFailure ==
    CursorDecoded
        => \A p \in 1..Len(out.visited) :
                ~FieldResultAt(out.visited[p]).ok
                    => p = Len(out.visited) /\ ~out.res.ok

\* C21: a failure of any single field or element aborts the whole enclosing
\* operation: a row decode returns Err with no partially built value, and
\* to_params / to_params_named return Err with no partial parameter list,
\* however many earlier fields or elements succeeded; no later field or
\* element is processed after the first failure.
C21_FailFast ==
    /\ EncodeFailFast
    /\ DecodeStopsAtFailure
    /\ FieldFailed => out.res.err.kind # "Panic"

\* the shapes RowValue leaves to forward_to_deserialize_any!
FallbackShapes == IntTypes \cup {"char", "String", "Vec<u8>", "tuple", "map", "struct"}

\* the type decoded from the single column: a newtype struct hands the
\* column on to the type it wraps
ColumnTarget == IF target.k = "newtype_struct" THEN target.v ELSE target

\* a value of ColumnTarget as the decode returns it
AsTarget(x) == IF target.k = "newtype_struct" THEN VNewtypeStruct(target.n, x) ELSE x

\* a column that exists was decoded into a target without a rule of its own
FallbackDecoded ==
    /\ Decoded /\ target.k \notin RowShapes /\ Len(row) >= 1
    /\ ColumnTarget.k \in FallbackShapes

\* the element or field types of a tuple or struct target
ElementTypes(T) == [i \in 1..Len(T.v) |-> IF T.k = "struct" THEN T.v[i].t ELSE T.v[i]]

\* every element or field type has a byte of the Blob and takes it
BytesFit(T, bytes) ==
    \A i \in 1..Len(T.v) :
        /\ i <= Len(bytes)
        /\ ElementTypes(T)[i].k \in IntTypes \cup Floats
        /\ ElementTypes(T)[i].k \in IntTypes => InRange(ElementTypes(T)[i].k, bytes[i])

\* C22 as the claim states it: a fallback target that cannot accept the
\* column's value yields Unsupported.
C22_FallbackUnsupported ==
    FallbackDecoded => out.res.ok \/ out.res.err.kind = "Unsupported"

\* C22, amended: for a target shape without a dedicated decode rule
\* (fixed-width integers, char, string, seq, tuple, map, struct as a direct
\* single-column target) the value decoder falls back to the generic-any
\* mapping (Null -> absent, Integer -> i64, Real -> f64, Text -> string,
\* Blob -> byte sequence) and, when the consumer cannot accept that value, the
\* result is the consumer's own Deserialization error, carrying no column.
C22_FallbackDeserialization ==
    FallbackDecoded
        => LET T == ColumnTarget
               val == row[1]
           IN  CASE val.k = "Integer" /\ T.k \in IntTypes /\ InRange(T.k, val.v) ->
                        out.res = Ok(AsTarget(VInt(T.k, val.v)))
                 [] val.k = "Text" /\ T.k = "String" ->
                        out.res = Ok(AsTarget(VStr(val.v)))
                 [] val.k = "Text" /\ T.k = "char" /\ Len(val.v) = 1 ->
                        out.res = Ok(AsTarget(VChar(val.v)))
                 [] val.k = "Blob" /\ T.k = "Vec<u8>" ->
                        out.res = Ok(AsTarget(VSeq([i \in 1..Len(val.v) |->
                                                        VInt("u8", val.v[i])])))
                 [] val.k = "Blob" /\ T.k \in {"tuple", "struct"} /\ BytesFit(T, val.v) ->
                        out.res.ok
                 [] OTHER ->
                        /\ ~out.res.ok
                        /\ out.res.err.kind = "Deserialization"
                        /\ out.res.err.column = <<>>

C22_Witness ==
    /\ op = "from_row"
    /\ target = TNewtypeStruct("W", TMap(TString, TInt("i64")))
    /\ row = <<Text("a")>>
    /\ ~out.res.ok
    /\ out.res.err.kind = "Deserialization"

\* the elements of a positional source, or the values of the fields a named
\* source emits, in order
Parts ==
    IF op = "to_params" THEN src.v
    ELSE LET kept == IF only = <<>> THEN src.v ELSE Listed(src, only)
         IN  [i \in 1..Len(kept) |-> kept[i].val]

\* a tuple or struct source was encoded and the primitive encoder was given
\* part i of it: no failing part precedes it
EncodedPart(i) ==
    /\ \/ op = "to_params" /\ src.k \in {"tuple", "tuple_struct", "tuple_variant"}
       \/ op = "to_params_named" /\ src.k = "struct"
    /\ i \in 1..Len(Parts)
    /\ \A h \in 1..(i - 1) : ToSqlSerializer(Parts[h]).ok

\* part i is a generic sequence
SeqPart(i) == EncodedPart(i) /\ Parts[i].k = "seq"

AllU8(xs) == \A j \in 1..Len(xs) : xs[j].k = "u8"

\* the first element of xs that is not a u8
FirstNotU8(xs) ==
    xs[CHOOSE j \in 1..Len(xs) : xs[j].k # "u8" /\ \A h \in 1..(j - 1) : xs[h].k = "u8"]

\* C23: as one element or field of a parameter source, a generic sequence
\* whose elements are all u8 encodes to a single Blob containing those bytes
\* in order; if any element is not a u8, the encode fails at that element with
\* Unsupported, the bytes accumulated so far are discarded, and no Blob is
\* produced.
C23_SeqOfU8 ==
    \A i \in 1..MaxFields :
        SeqPart(i)
            => IF AllU8(Parts[i].v)
               THEN params.ok
                        => params.val[i] =
                            LET blob == Blob([j \in 1..Len(Parts[i].v) |-> Parts[i].v[j].v])
                            IN  IF op = "to_params" THEN blob
                                ELSE [name |-> params.val[i].name, param |-> blob]
               ELSE params = Err(ser_unsupported(FirstNotU8(Parts[i].v).k))

C23_Witness ==
    /\ op = "to_params"
    /\ src = VTuple(<<VInt("i64", 5), VSeq(<<VInt("u8", 1), VInt("u8", 0)>>)>>)
    /\ params = Ok(<<Integer(5), Blob(<<1, 0>>)>>)

C23_WitnessFailure ==
    /\ op = "to_params"
    /\ src = VTuple(<<VInt("i64", 5), VSeq(<<VInt("u8", 1), VInt("i64", 5)>>)>>)
    /\ params = Err(ser_unsupported("i64"))

CompositeShapes == {"tuple", "tuple_struct", "tuple_variant", "map", "struct", "struct_variant"}

\* what a Vec<t> of integers serializes as: serialize_seq, then one
\* serialize_element per element
SeqOf(t, ns) == VSeq([j \in 1..Len(ns) |-> VInt(t, ns[j])])

\* x is what some Vec<t> with t other than u8 serializes as
NotU8Seq(x) ==
    /\ x.k = "seq"
    /\ \E t \in IntTypes \ {"u8"} : \A j \in 1..Len(x.v) : x.v[j].k = t

\* C24 as the claim states it: every composite element or field is refused
\* with Unsupported, a sequence whose element type is not u8 whatever its
\* length.
C24_EveryLength ==
    \A i \in 1..MaxFields :
        (EncodedPart(i)
            /\ (Unwrapped(Parts[i]).k \in CompositeShapes \/ NotU8Seq(Parts[i])))
            => ~params.ok /\ params.err.kind = "Unsupported"

\* C24, amended: the primitive param encoder returns Unsupported for every
\* composite value it is given as a single element or field: every tuple,
\* tuple-struct, map, struct, payload variant with several values, and every
\* non-empty sequence whose element type is not u8; it never produces a
\* storage value for them.  A sequence of length 0 carries no element, so it
\* encodes to an empty Blob whatever its element type.
C24_CompositeUnsupported ==
    \A i \in 1..MaxFields :
        /\ (EncodedPart(i)
                /\ \/ Unwrapped(Parts[i]).k \in CompositeShapes
                   \/ NotU8Seq(Parts[i]) /\ Parts[i].v # <<>>)
                => ~params.ok /\ params.err.kind = "Unsupported"
        /\ (EncodedPart(i) /\ Parts[i] = SeqOf("i64", <<>>)
                /\ \A h \in (i + 1)..Len(Parts) : ToSqlSerializer(Parts[h]).ok)
                => /\ params.ok
                   /\ params.val[i] =
                        IF op = "to_params" THEN Blob(<<>>)
                        ELSE [name |-> params.val[i].name, param |-> Blob(<<>>)]

C24_Witness ==
    /\ op = "to_params"
    /\ src = VTuple(<<VStr("a"), VMap(<<[key |-> VStr("id"), val |-> VInt("i64", 5)]>>)>>)
    /\ params = Err(ser_unsupported("map"))

C24_WitnessEmpty ==
    /\ op = "to_params"
    /\ src = VTuple(<<VInt("i64", 5), SeqOf("i64", <<>>)>>)
    /\ params = Ok(<<Integer(5), Blob(<<>>)>>)

\* C27: during any row decode (map, struct or tuple target), for every
\* combination of row width, column-list length, requested element count and
\* per-column success or failure, the column-name list is only ever indexed at
\* a position smaller than its length; in particular the error-annotation step
\* of the map and sequence cursors never reads past the end of the column list.
C27_ColumnsIndexedInBounds ==
    (Decoded /\ target.k \in RowShapes) => out.res # Err(Panic("index out of bounds"))

\* the map and struct cursor only annotates a column it took a key from
C27_MapCursorInBounds ==
    (Decoded /\ target.k \in {"map", "struct"}) => out.res # Err(Panic("index out of bounds"))

\* entry e of a named source is one the allow-list lets through
Emitted(e) == only = <<>> \/ Contains(only, EntryName(src, e))

\* a struct source, or a map source whose keys are all column names
NamedEncoded ==
    /\ op = "to_params_named" /\ src.k \in {"struct", "map"}
    /\ src.k = "map" => KeyKinds(src) \subseteq {"str", "char"}

\* C28: in the named param builder a field or map entry excluded by the
\* allow-list is never passed to the primitive encoder, so a value that would
\* fail to encode (a nested struct, a tuple, a u64 above i64::MAX) causes no
\* error when its field is not in the allow-list, while the same value in a
\* listed field fails the whole encode; with an empty allow-list every field
\* is encoded and emitted.
C28_ExcludedNotEncoded ==
    NamedEncoded
        => LET kept == SelectSeq(src.v, Emitted)
           IN  IF \E i \in 1..Len(kept) : ~ToSqlSerializer(kept[i].val).ok
               THEN ~params.ok
               ELSE /\ params.ok
                    /\ params.val = [i \in 1..Len(kept) |->
                                        [name |-> ":" \o EntryName(src, kept[i]),
                                         param |-> ToSqlSerializer(kept[i].val).val]]
                    /\ only = <<>> => Len(params.val) = Len(src.v)

C28_Witness ==
    /\ op = "to_params_named"
    /\ only = <<"name">>
    /\ src = VStruct("Food", <<[key |-> "id", val |-> VInt("u64", U64_MAX)],
                               [key |-> "name", val |-> VStr("a")]>>)
    /\ params = Ok(<<[name |-> ":name", param |-> Text("a")]>>)

C28_WitnessListed ==
    /\ op = "to_params_named"
    /\ only = <<"id">>
    /\ src = VStruct("Food", <<[key |-> "id", val |-> VInt("u64", U64_MAX)],
                               [key |-> "name", val |-> VStr("a")]>>)
    /\ ~params.ok /\ params.err.kind = "ValueTooLarge"

\* C29: the positional param builder treats a byte sequence differently by
\* nesting depth: a top-level generic sequence of n u8 values given to
\* to_params yields n Integer entries (one per byte), whereas the same
\* sequence as one element of a tuple yields a single Blob entry; a top-level
\* optimized byte slice (serialize_bytes) yields a single Blob entry.
C29_BytesByDepth ==
    /\ (op = "to_params" /\ src.k = "seq" /\ AllU8(src.v))
            => params = Ok([i \in 1..Len(src.v) |-> Integer(src.v[i].v)])
    /\ (op = "to_params" /\ src.k = "tuple" /\ Len(src.v) = 1
            /\ src.v[1].k = "seq" /\ AllU8(src.v[1].v))
            => params = Ok(<<Blob([i \in 1..Len(src.v[1].v) |-> src.v[1].v[i].v])>>)
    /\ (op = "to_params" /\ src.k = "bytes")
            => params = Ok(<<Blob(src.v)>>)

C29_Witness ==
    /\ op = "to_params"
    /\ src = VSeq(<<VInt("u8", 1), VInt("u8", 0)>>)
    /\ params = Ok(<<Integer(1), Integer(0)>>)

C29_WitnessNested ==
    /\ op = "to_params"
    /\ src = VTuple(<<VSeq(<<VInt("u8", 1), VInt("u8", 0)>>)>>)
    /\ params = Ok(<<Blob(<<1, 0>>)>>)

\* The wrapper built over the result stream has column names and has been
\* asked for items
Iterating ==
    /\ wrapper.kind \in {"owned", "ref", "dropped", "panicked"}
    /\ wrapper.columns # <<>>

\* What call j of next() is due: the decode of row start + j alone, then the
\* failure of the step after the last row if the stream has one, then None
ExpectedItem(j) ==
    IF wrapper.start + j <= Len(stream.rows)
    THEN ItemSome(from_row_with_columns(wrapper.T, stream.rows[wrapper.start + j],
                                        stream.names).res)
    ELSE IF wrapper.start + j = Len(stream.rows) + 1 /\ stream.fails
    THEN ItemSome(Err(Rusqlite("SqliteFailure")))
    ELSE ItemNone

\* every item handed back so far is the one due for its call
ItemsInRowOrder == \A j \in 1..Len(wrapper.items) : wrapper.items[j] = ExpectedItem(j)

\* C25: for a row iterator (from_rows / from_rows_ref) with column names
\* available over a result stream of n rows, successive next() calls yield
\* exactly n items in row order and then None; item i depends only on row i,
\* and an Err item for row i neither ends the iteration nor changes the
\* result of any later row: every call hands an item back, and item j is the
\* decode of row j alone.
C25_ItemsInRowOrder ==
    Iterating =>
        /\ wrapper.kind # "panicked"
        /\ Len(wrapper.items) = wrapper.calls
        /\ ItemsInRowOrder

\* the same of the calls that returned: a call that panicked hands nothing back
C25_ReturnedItemsInRowOrder ==
    Iterating =>
        /\ Len(wrapper.items) = wrapper.calls - (IF wrapper.kind = "panicked" THEN 1 ELSE 0)
        /\ ItemsInRowOrder

\* an Err item for the first row, an Ok item for the second, then None
C25_Witness ==
    /\ Iterating /\ wrapper.kind = "owned" /\ wrapper.start = 0
    /\ Len(stream.rows) = 2 /\ ~stream.fails
    /\ Len(wrapper.items) = 3
    /\ wrapper.items[1].k = "Some" /\ ~wrapper.items[1].v.ok
    /\ wrapper.items[2].k = "Some" /\ wrapper.items[2].v.ok
    /\ wrapper.items[3] = ItemNone

Min(a, b) == IF a <= b THEN a ELSE b

\* C26: a borrowing row iterator (from_rows_ref) advances the underlying
\* result cursor by exactly one row per next() call and by nothing else:
\* after k next() calls and dropping the wrapper, the next row obtained from
\* the original cursor is row k+1 and decodes to the same value it would have
\* through the wrapper.
C26_OneRowPerNext ==
    /\ (wrapper.kind \in {"ref", "dropped"} /\ direct.when # "after")
            => cursor.pos = Min(wrapper.start + wrapper.calls, Len(stream.rows))
    /\ (wrapper.kind = "dropped" /\ direct.when = "after" /\ direct.idx # 0)
            => /\ direct.idx = wrapper.start + wrapper.calls + 1
               /\ wrapper.columns # <<>>
               /\ direct.res = from_row_with_columns(wrapper.T, stream.rows[direct.idx],
                                                     wrapper.columns[1]).res
               /\ ItemOrPanic(direct.res) = deser_row(wrapper.T, Ok(<<stream.rows[direct.idx]>>),
                                                      wrapper.columns)

\* one row taken through the wrapper (an Err item), the wrapper dropped, the
\* second row taken from the cursor itself and decoded
C26_Witness ==
    /\ wrapper.kind = "dropped" /\ wrapper.start = 0 /\ wrapper.calls = 1
    /\ wrapper.items[1].k = "Some" /\ ~wrapper.items[1].v.ok
    /\ direct.when = "after" /\ direct.idx = 2
    /\ direct.res.ok

\* A wrapper built when the column names were not available
NamesUnavailable == wrapper.kind # "none" /\ wrapper.columns = <<>>

\* every call handed back Some(Err(ColumnNamesNotAvailable)), and the cursor
\* stands where it stood when the wrapper was built
UnavailableNeverEnds ==
    NamesUnavailable =>
        /\ Len(wrapper.items) = wrapper.calls
        /\ \A j \in 1..Len(wrapper.items) :
                wrapper.items[j] = ItemSome(Err(ColumnNamesNotAvailable))
        /\ cursor.pos = wrapper.start

ReturnedNone == \E j \in 1..Len(wrapper.items) : wrapper.items[j] = ItemNone

\* C30: when a row iterator was built from a result stream whose column
\* names are unavailable, every next() call returns
\* Some(Err(ColumnNamesNotAvailable)) for every target type (not only
\* maps/structs), without reading or advancing the underlying rows, so the
\* iteration never reaches None; when column names are available, iteration
\* over a finite result stream always eventually returns None.
C30_NamesDecideTheEnd ==
    /\ []UnavailableNeverEnds
    /\ (wrapper.kind = "owned" /\ wrapper.columns # <<>>) ~> ReturnedNone

\* the same where a call that panics counts as the end of the iteration
C30_NoneOrPanic ==
    /\ []UnavailableNeverEnds
    /\ (wrapper.kind = "owned" /\ wrapper.columns # <<>>)
            ~> (ReturnedNone \/ wrapper.kind = "panicked")

\* a wrapper for a plain integer built after the rows ran out: three calls,
\* three times the same error
C30_Witness ==
    /\ NamesUnavailable /\ wrapper.T = TInt("i64") /\ wrapper.calls = 3
    /\ wrapper.items[3] = ItemSome(Err(ColumnNamesNotAvailable))
    /\ Len(stream.rows) = 2 /\ cursor.pos = 2

=============================================================================
